---- MODULE Spec2Model ----
(***************************************************************************)
(* Location resolution pipeline of the Ryoko AI trip planner:              *)
(* the Source Matcher (normalizeString, isSimilarMatch, findMatchingUri,   *)
(* findNeighborhoodUri) and the Itinerary Annotator                        *)
(* (matchSourcesToItinerary) of src/utils/extractCoordinates.ts.           *)
(*                                                                         *)
(* A JavaScript string is a sequence of characters; a character is a       *)
(* one-letter TLA+ string, or a token "U+XXXX" for a character outside     *)
(* ASCII.  The JavaScript values null and undefined are the one-element    *)
(* sequences Null and Undefined, whose element is not a character.         *)
(* Objects live in a heap (a sequence of records); an address is an index  *)
(* of the heap and 0 is "no object".                                       *)
(***************************************************************************)
EXTENDS Integers, Sequences, FiniteSets, TLC

VARIABLES heap, itinerary, sources, matchedItinerary, pc, call, ret

\* the page: window.google.maps, the Maps script element, the configured key;
\* the module variables of loadGoogleMapsAPI.ts; the promises it made; the
\* calls of getCoordinatesFromUrl
VARIABLES google, script, apiKey, loadPromise, isLoaded, promises, tasks

mapsVars == <<google, script, apiKey, loadPromise, isLoaded, promises, tasks>>

\* the plans and members collections, the plansCreated field of the
\* creator's user document, the calls of createPlan
VARIABLES plans, members, plansCreated, creates

planVars == <<plans, members, plansCreated, creates>>

\* one ExpandableItineraryCard: its props and whether it is mounted, its
\* imageUrl and imageLoading state, the getLocationImage calls of its effect
VARIABLES card, imageUrl, imageLoading, lookups

cardVars == <<card, imageUrl, imageLoading, lookups>>

\* one GoogleMapsWithMarkers: its itinerary prop and what is scheduled for
\* it, its isLoaded, error, isGeocoding and map state, whether mapRef.current
\* is set, the geocodeLocation calls it made
VARIABLES mapView, viewIsLoaded, error, isGeocoding, mapRef, map, geocodeCalls

viewVars == <<mapView, viewIsLoaded, error, isGeocoding, mapRef, map, geocodeCalls>>

\* the variables outside the location pipeline and the Maps loader
restVars == <<planVars, cardVars, viewVars>>

vars == <<heap, itinerary, sources, matchedItinerary, pc, call, ret,
          google, script, apiKey, loadPromise, isLoaded, promises, tasks,
          plans, members, plansCreated, creates,
          card, imageUrl, imageLoading, lookups,
          mapView, viewIsLoaded, error, isGeocoding, mapRef, map, geocodeCalls>>

-----------------------------------------------------------------------------
(* Bounds of the model *)

MaxHotels == 1
MaxDays == 1
MaxItems == 1
MaxSources == 2
MaxStrLen == 3
MaxParts == 2
MaxCalls == 2
MaxLoads == 3
MaxCreates == 3
MaxLookups == 3
MaxMembers == 2
MaxTextLen == 130

-----------------------------------------------------------------------------
(* JavaScript values *)

Null == <<"null">>
Undefined == <<"undefined">>

\* ToBoolean of a value that is a string, null or undefined
Truthy(v) == v # Null /\ v # Undefined /\ v # <<>>

\* a || b
Or(a, b) == IF Truthy(a) THEN a ELSE b

UpperCase == <<"A", "B", "C", "D", "E", "F", "G", "H", "I", "J", "K", "L", "M", "N", "O", "P", "Q", "R", "S", "T", "U", "V", "W", "X", "Y", "Z">>
LowerCase == <<"a", "b", "c", "d", "e", "f", "g", "h", "i", "j", "k", "l", "m", "n", "o", "p", "q", "r", "s", "t", "u", "v", "w", "x", "y", "z">>
Digits == {"0", "1", "2", "3", "4", "5", "6", "7", "8", "9"}

Range(s) == {s[i] : i \in 1..Len(s)}

LowerCaseOf == [c \in Range(UpperCase) |-> LowerCase[CHOOSE i \in 1..Len(UpperCase) : UpperCase[i] = c]]

\* String.prototype.toLowerCase, one character ("U+00C9" is E acute, "U+00E9" e acute)
toLowerCase(c) ==
    IF c \in DOMAIN LowerCaseOf THEN LowerCaseOf[c]
    ELSE IF c = "U+00C9" THEN "U+00E9" ELSE c

WordChars == Range(UpperCase) \cup Range(LowerCase) \cup Digits \cup {"_"}
SpaceChars == {" ", "\t", "\n", "U+00A0"}

\* the regular-expression class \w
IsWordChar(c) == c \in WordChars

\* the regular-expression class \s ("U+00A0" is the no-break space)
IsSpaceChar(c) == c \in SpaceChars

\* String.prototype.includes
Includes(s, sub) ==
    \E i \in 0..(Len(s) - Len(sub)) : SubSeq(s, i + 1, i + Len(sub)) = sub

RECURSIVE ReplaceSpaceRuns(_)
\* .replace(/\s+/g, ' ')
ReplaceSpaceRuns(s) ==
    IF s = <<>> THEN <<>>
    ELSE IF IsSpaceChar(Head(s))
         THEN IF Len(s) > 1 /\ IsSpaceChar(s[2])
              THEN ReplaceSpaceRuns(Tail(s))
              ELSE <<" ">> \o ReplaceSpaceRuns(Tail(s))
         ELSE <<Head(s)>> \o ReplaceSpaceRuns(Tail(s))

\* String.prototype.trim
Trim(s) ==
    IF \A i \in 1..Len(s) : IsSpaceChar(s[i]) THEN <<>>
    ELSE LET first == CHOOSE i \in 1..Len(s) :
                          /\ ~IsSpaceChar(s[i])
                          /\ \A j \in 1..(i - 1) : IsSpaceChar(s[j])
             last == CHOOSE i \in 1..Len(s) :
                          /\ ~IsSpaceChar(s[i])
                          /\ \A j \in (i + 1)..Len(s) : IsSpaceChar(s[j])
         IN SubSeq(s, first, last)

RECURSIVE Split(_)
\* String.prototype.split(' ')
Split(s) ==
    IF \A i \in 1..Len(s) : s[i] # " " THEN <<s>>
    ELSE LET i == CHOOSE k \in 1..Len(s) :
                      s[k] = " " /\ \A j \in 1..(k - 1) : s[j] # " "
         IN <<SubSeq(s, 1, i - 1)>> \o Split(SubSeq(s, i + 1, Len(s)))

-----------------------------------------------------------------------------
(* Source Matcher *)

normalizeString(str) ==
    LET lowered == [i \in 1..Len(str) |-> toLowerCase(str[i])]
        stripped == SelectSeq(lowered, LAMBDA c : IsWordChar(c) \/ IsSpaceChar(c))
    IN Trim(ReplaceSpaceRuns(stripped))

Min(a, b) == IF a <= b THEN a ELSE b
Max(a, b) == IF a >= b THEN a ELSE b

isSimilarMatchHalf(str1, str2) ==
    LET normalized1 == normalizeString(str1)
        normalized2 == normalizeString(str2)
    IN IF normalized1 = normalized2 THEN TRUE
       ELSE IF Includes(normalized1, normalized2) \/ Includes(normalized2, normalized1)
            THEN 2 * Min(Len(normalized1), Len(normalized2))
                   >= Max(Len(normalized1), Len(normalized2))
            ELSE FALSE

\* minLength / maxLength >= 0.6 is 5 * minLength >= 3 * maxLength
isSimilarMatch(str1, str2) ==
    LET normalized1 == normalizeString(str1)
        normalized2 == normalizeString(str2)
    IN IF normalized1 = normalized2 THEN TRUE
       ELSE IF Includes(normalized1, normalized2) \/ Includes(normalized2, normalized1)
            THEN LET minLength == Min(Len(normalized1), Len(normalized2))
                     maxLength == Max(Len(normalized1), Len(normalized2))
                 IN 5 * minLength >= 3 * maxLength
            ELSE FALSE

genericKeywords ==
    << <<"n", "e", "a", "r">>,
       <<"a", "r", "o", "u", "n", "d">>,
       <<"i", "n">>,
       <<"a", "t">>,
       <<"e", "x", "p", "l", "o", "r", "e">>,
       <<"d", "i", "n", "n", "e", "r">>,
       <<"l", "u", "n", "c", "h">>,
       <<"b", "r", "e", "a", "k", "f", "a", "s", "t">>,
       <<"d", "e", "p", "a", "r", "t">>,
       <<"t", "r", "a", "n", "s", "i", "t">>,
       <<"a", "i", "r", "p", "o", "r", "t">> >>

\* a citation: kind "maps" is { maps: { uri, title } }, kind "web" is { web: { uri, title } }
MapsChunk(title, uri) == [kind |-> "maps", title |-> title, uri |-> uri]
WebChunk(title, uri) == [kind |-> "web", title |-> title, uri |-> uri]

HasMapsTitleAnyKind(source) == Truthy(source.title)

\* source.maps?.title
HasMapsTitle(source) == source.kind = "maps" /\ Truthy(source.title)

isGenericThreeWords(placeName) ==
    LET normalizedPlace == normalizeString(placeName)
    IN /\ \E k \in 1..Len(genericKeywords) : Includes(normalizedPlace, genericKeywords[k])
       /\ Len(Split(normalizedPlace)) <= 3

isGeneric(placeName) ==
    LET normalizedPlace == normalizeString(placeName)
    IN /\ \E k \in 1..Len(genericKeywords) : Includes(normalizedPlace, genericKeywords[k])
       /\ Len(Split(normalizedPlace)) <= 4

\* const placeWords = normalizedPlace.split(' ').filter(w => w.length > 2)
placeWordsOf(placeName) ==
    SelectSeq(Split(normalizeString(placeName)), LAMBDA w : Len(w) > 2)

\* matchingWords.length of one source
matchingWordsCount(placeWords, source) ==
    LET sourceTitle == normalizeString(source.title)
    IN Cardinality({k \in 1..Len(placeWords) : Includes(sourceTitle, placeWords[k])})

RECURSIVE BestMatchLastWins(_, _, _, _)
BestMatchLastWins(placeWords, srcs, i, best) ==
    IF i > Len(srcs) THEN best
    ELSE IF HasMapsTitle(srcs[i])
         THEN LET n == matchingWordsCount(placeWords, srcs[i])
              IN IF 2 * n >= Len(placeWords) /\ (best = 0 \/ n >= matchingWordsCount(placeWords, srcs[best]))
                 THEN BestMatchLastWins(placeWords, srcs, i + 1, i)
                 ELSE BestMatchLastWins(placeWords, srcs, i + 1, best)
         ELSE BestMatchLastWins(placeWords, srcs, i + 1, best)

RECURSIVE BestMatch(_, _, _, _)
\* the second loop of findMatchingUri from position i on; best is the position
\* of bestMatch.source (0 for null); score is matchingWords.length / placeWords.length,
\* so score >= 0.5 is 2 * n >= length and scores compare by n
BestMatch(placeWords, srcs, i, best) ==
    IF i > Len(srcs) THEN best
    ELSE IF HasMapsTitle(srcs[i])
         THEN LET n == matchingWordsCount(placeWords, srcs[i])
              IN IF 2 * n >= Len(placeWords) /\ (best = 0 \/ n > matchingWordsCount(placeWords, srcs[best]))
                 THEN BestMatch(placeWords, srcs, i + 1, i)
                 ELSE BestMatch(placeWords, srcs, i + 1, best)
         ELSE BestMatch(placeWords, srcs, i + 1, best)

findMatchingUri(placeName, srcs) ==
    IF isGeneric(placeName) THEN Null
    ELSE IF \E i \in 1..Len(srcs) : HasMapsTitle(srcs[i]) /\ isSimilarMatch(placeName, srcs[i].title)
         THEN srcs[CHOOSE i \in 1..Len(srcs) :
                       /\ HasMapsTitle(srcs[i]) /\ isSimilarMatch(placeName, srcs[i].title)
                       /\ \A j \in 1..(i - 1) :
                              ~(HasMapsTitle(srcs[j]) /\ isSimilarMatch(placeName, srcs[j].title))].uri
         ELSE LET placeWords == placeWordsOf(placeName)
              IN IF Len(placeWords) = 0 THEN Null
                 ELSE LET bestMatch == BestMatch(placeWords, srcs, 1, 0)
                      IN IF bestMatch # 0 THEN srcs[bestMatch].uri ELSE Null

\* encodeURIComponent, one character: A-Z a-z 0-9 - _ . ! ~ * ' ( ) are kept,
\* every other character becomes the %XX escapes of its UTF-8 bytes
escapes ==
    [c \in {" ", "\t", "\n", "&", ",", "/", "U+00A0", "U+00C9", "U+00E9"} |->
        CASE c = " " -> <<"%", "2", "0">>
          [] c = "\t" -> <<"%", "0", "9">>
          [] c = "\n" -> <<"%", "0", "A">>
          [] c = "&" -> <<"%", "2", "6">>
          [] c = "," -> <<"%", "2", "C">>
          [] c = "/" -> <<"%", "2", "F">>
          [] c = "U+00A0" -> <<"%", "C", "2", "%", "A", "0">>
          [] c = "U+00C9" -> <<"%", "C", "3", "%", "8", "9">>
          [] c = "U+00E9" -> <<"%", "C", "3", "%", "A", "9">>]

encodeChar(c) ==
    IF IsWordChar(c) \/ c \in {"-", ".", "!", "~", "*", "'", "(", ")"} THEN <<c>>
    ELSE escapes[c]

RECURSIVE encodeURIComponent(_)
encodeURIComponent(s) ==
    IF s = <<>> THEN <<>> ELSE encodeChar(Head(s)) \o encodeURIComponent(Tail(s))

SearchUrlPrefix == <<"h", "t", "t", "p", "s", ":", "/", "/", "w", "w", "w", ".", "g", "o", "o", "g", "l", "e", ".", "c", "o", "m", "/", "m", "a", "p", "s", "/", "s", "e", "a", "r", "c", "h", "/", "?", "a", "p", "i", "=", "1", "&", "q", "u", "e", "r", "y", "=">>

generateNeighborhoodMapsUrl(location) ==
    SearchUrlPrefix \o encodeURIComponent(location)

businessMarkers ==
    << <<"r", "e", "s", "t", "a", "u", "r", "a", "n", "t">>,
       <<"h", "o", "t", "e", "l">>,
       <<"c", "a", "f", "e">>,
       <<"s", "t", "o", "r", "e">>,
       <<"m", "u", "s", "e", "u", "m">> >>

\* the condition under which the loop of findNeighborhoodUri returns source.maps.uri
neighborhoodMatch(location, source) ==
    /\ HasMapsTitle(source)
    /\ LET sourceTitle == normalizeString(source.title)
           normalizedLocation == normalizeString(location)
       IN /\ \/ sourceTitle = normalizedLocation
             \/ Includes(sourceTitle, normalizedLocation)
             \/ Includes(normalizedLocation, sourceTitle)
          /\ \A k \in 1..Len(businessMarkers) : ~Includes(sourceTitle, businessMarkers[k])

findNeighborhoodUriOrNull(location, srcs) ==
    IF \E i \in 1..Len(srcs) : neighborhoodMatch(location, srcs[i])
    THEN srcs[CHOOSE i \in 1..Len(srcs) :
                  /\ neighborhoodMatch(location, srcs[i])
                  /\ \A j \in 1..(i - 1) : ~neighborhoodMatch(location, srcs[j])].uri
    ELSE Null

findNeighborhoodUri(location, srcs) ==
    IF \E i \in 1..Len(srcs) : neighborhoodMatch(location, srcs[i])
    THEN srcs[CHOOSE i \in 1..Len(srcs) :
                  /\ neighborhoodMatch(location, srcs[i])
                  /\ \A j \in 1..(i - 1) : ~neighborhoodMatch(location, srcs[j])].uri
    ELSE generateNeighborhoodMapsUrl(location)

-----------------------------------------------------------------------------
(* Heap objects of the types of src/types.ts *)

HotelObj(v) ==
    [kind |-> "Hotel", name |-> v.name, description |-> v.description,
     location |-> v.location, googleMapsLink |-> v.googleMapsLink]

HiddenGemObj(v) ==
    [kind |-> "HiddenGem", name |-> v.name, location |-> v.location,
     description |-> v.description, googleMapsLink |-> v.googleMapsLink,
     locationUri |-> v.locationUri]

\* hiddenGem is the address of the gem object, 0 when the item has none
ItineraryItemObj(v, gem) ==
    [kind |-> "ItineraryItem", time |-> v.time, activity |-> v.activity,
     location |-> v.location, description |-> v.description,
     googleMapsLink |-> v.googleMapsLink, locationUri |-> v.locationUri,
     hiddenGem |-> gem]

DailyPlanObj(v, items) ==
    [kind |-> "DailyPlan", day |-> v.day, title |-> v.title, items |-> items]

ItineraryObj(v, packingList, hotels, days) ==
    [kind |-> "Itinerary", tripTitle |-> v.tripTitle, vibeCheck |-> v.vibeCheck,
     packingList |-> packingList, recommendedHotels |-> hotels,
     dailyItinerary |-> days]

\* an array of objects holds their addresses, an array of strings the strings
ArrayObj(elems) == [kind |-> "Array", elems |-> elems]

\* F(v) with v evaluated once: const x = v; ... F(x)
With(v, F(_)) == CHOOSE res \in {F(x) : x \in {v}} : TRUE

\* the number of positions j <= i of s that satisfy Test
Rank(s, i, Test(_)) == Cardinality({j \in 1..i : Test(s[j])})

-----------------------------------------------------------------------------
(* JSON.stringify and JSON.parse of an Itinerary: the text is the tree of   *)
(* the values; a property whose value is undefined is not written, and     *)
(* reads as undefined after parsing                                        *)

HotelValue(h, a) ==
    [name |-> h[a].name, description |-> h[a].description,
     location |-> h[a].location, googleMapsLink |-> h[a].googleMapsLink]

HiddenGemValue(h, a) ==
    [name |-> h[a].name, location |-> h[a].location,
     description |-> h[a].description, googleMapsLink |-> h[a].googleMapsLink,
     locationUri |-> h[a].locationUri]

\* hiddenGem is <<>> for an item without a gem, << gem >> otherwise
ItineraryItemValue(h, a) ==
    [time |-> h[a].time, activity |-> h[a].activity, location |-> h[a].location,
     description |-> h[a].description, googleMapsLink |-> h[a].googleMapsLink,
     locationUri |-> h[a].locationUri,
     hiddenGem |-> IF h[a].hiddenGem = 0 THEN <<>>
                   ELSE <<HiddenGemValue(h, h[a].hiddenGem)>>]

DailyPlanValue(h, a) ==
    [day |-> h[a].day, title |-> h[a].title,
     items |-> [i \in 1..Len(h[h[a].items].elems) |->
                    ItineraryItemValue(h, h[h[a].items].elems[i])]]

JSONstringify(h, a) ==
    [tripTitle |-> h[a].tripTitle, vibeCheck |-> h[a].vibeCheck,
     packingList |-> h[h[a].packingList].elems,
     recommendedHotels |-> [i \in 1..Len(h[h[a].recommendedHotels].elems) |->
                                HotelValue(h, h[h[a].recommendedHotels].elems[i])],
     dailyItinerary |-> [i \in 1..Len(h[h[a].dailyItinerary].elems) |->
                             DailyPlanValue(h, h[h[a].dailyItinerary].elems[i])]]

HasGem(v) == v.hiddenGem # <<>>

\* the objects of an array of hotels, then the array
ParseHotels(h, hv) ==
    LET h1 == h \o [i \in 1..Len(hv) |-> HotelObj(hv[i])]
    IN [heap |-> Append(h1, ArrayObj([i \in 1..Len(hv) |-> Len(h) + i])),
        addr |-> Len(h1) + 1]

\* the gems of an array of items, then the items, then the array
ParseItems(h, iv) ==
    LET withGem == SelectSeq(iv, HasGem)
        h1 == h \o [k \in 1..Len(withGem) |-> HiddenGemObj(withGem[k].hiddenGem[1])]
        h2 == h1 \o [i \in 1..Len(iv) |->
                        ItineraryItemObj(iv[i], IF HasGem(iv[i])
                                                THEN Len(h) + Rank(iv, i, HasGem)
                                                ELSE 0)]
    IN [heap |-> Append(h2, ArrayObj([i \in 1..Len(iv) |-> Len(h1) + i])),
        addr |-> Len(h2) + 1]

RECURSIVE ParseDays(_, _, _, _)
ParseDays(h, dv, i, addrs) ==
    IF i > Len(dv)
    THEN [heap |-> Append(h, ArrayObj(addrs)), addr |-> Len(h) + 1]
    ELSE With(ParseItems(h, dv[i].items), LAMBDA r :
         With(Append(r.heap, DailyPlanObj(dv[i], r.addr)), LAMBDA h1 :
         ParseDays(h1, dv, i + 1, Append(addrs, Len(h1)))))

\* every object and array of the text is a new object of the heap
JSONparse(h, v) ==
    With(ParseHotels(h, v.recommendedHotels), LAMBDA rh :
    With(ParseDays(rh.heap, v.dailyItinerary, 1, <<>>), LAMBDA rd :
    With(Append(rd.heap, ArrayObj(v.packingList)), LAMBDA h3 :
    [heap |-> Append(h3, ItineraryObj(v, Len(h3), rh.addr, rd.addr)),
     addr |-> Len(h3) + 1])))

\* { ...itinerary }: a new top-level object whose properties hold the same objects
ShallowCopy(h, a) == [heap |-> Append(h, h[a]), addr |-> Len(h) + 1]

\* JSON.parse(JSON.stringify(itinerary))
DeepCopy(h, a) == JSONparse(h, JSONstringify(h, a))

-----------------------------------------------------------------------------
(* Itinerary Annotator *)

\* !hotel.googleMapsLink
HotelLacksLink(hotel) == ~Truthy(hotel.googleMapsLink)

\* a hotel without a match is returned as it came
MapHotelsSkipUnmatched(h, arr, srcs) ==
    LET elems == h[arr].elems
        hotels == [i \in 1..Len(elems) |-> h[elems[i]]]
        Matched(hotel) == HotelLacksLink(hotel) /\ Truthy(findMatchingUri(hotel.name, srcs))
        lacking == SelectSeq(hotels, Matched)
        h1 == h \o [k \in 1..Len(lacking) |->
                       [lacking[k] EXCEPT
                           !.googleMapsLink = findMatchingUri(lacking[k].name, srcs)]]
    IN [heap |-> Append(h1, ArrayObj([i \in 1..Len(elems) |->
                                IF Matched(hotels[i])
                                THEN Len(h) + Rank(hotels, i, Matched)
                                ELSE elems[i]])),
        addr |-> Len(h1) + 1]

\* matchedItinerary.recommendedHotels.map(hotel => ...): a hotel without a link
\* becomes a new object { ...hotel, googleMapsLink: uri }, any other hotel is
\* returned as the object it is; the result is a new array
MapHotels(h, arr, srcs) ==
    LET elems == h[arr].elems
        hotels == [i \in 1..Len(elems) |-> h[elems[i]]]
        lacking == SelectSeq(hotels, HotelLacksLink)
        h1 == h \o [k \in 1..Len(lacking) |->
                       [lacking[k] EXCEPT
                           !.googleMapsLink = findMatchingUri(lacking[k].name, srcs)]]
    IN [heap |-> Append(h1, ArrayObj([i \in 1..Len(elems) |->
                                IF HotelLacksLink(hotels[i])
                                THEN Len(h) + Rank(hotels, i, HotelLacksLink)
                                ELSE elems[i]])),
        addr |-> Len(h1) + 1]

\* hiddenGemObj of the item callback
annotatedGem(hiddenGem, srcs) ==
    LET hiddenGemObj == [hiddenGem EXCEPT
                            !.googleMapsLink = Or(hiddenGem.googleMapsLink, Null)]
    IN IF Truthy(hiddenGem.locationUri)
       THEN [hiddenGemObj EXCEPT !.locationUri = hiddenGem.locationUri]
       ELSE IF ~Truthy(hiddenGem.googleMapsLink)
            THEN LET hiddenGemUri == findMatchingUri(hiddenGem.name, srcs)
                     hiddenGemLocationUri == findNeighborhoodUri(hiddenGem.location, srcs)
                 IN [hiddenGemObj EXCEPT
                        !.googleMapsLink = Or(hiddenGemUri, Null),
                        !.locationUri = IF Truthy(hiddenGemLocationUri)
                                        THEN hiddenGemLocationUri
                                        ELSE hiddenGemObj.locationUri]
            ELSE hiddenGemObj

annotatedItemOverwriteLink(item, gem, srcs) ==
    LET activityUri == findMatchingUri(item.activity, srcs)
        locationUri == findNeighborhoodUri(item.location, srcs)
    IN [item EXCEPT
           !.googleMapsLink = Or(activityUri, Null),
           !.locationUri = IF Truthy(locationUri) THEN locationUri ELSE item.locationUri,
           !.hiddenGem = gem]

\* an item that came with a link loses it
annotatedItemDropsOwnLink(item, gem, srcs) ==
    LET activityUri == IF Truthy(item.googleMapsLink)
                       THEN Null ELSE findMatchingUri(item.activity, srcs)
        locationUri == findNeighborhoodUri(item.location, srcs)
    IN [item EXCEPT
           !.googleMapsLink = Or(activityUri, Null),
           !.locationUri = IF Truthy(locationUri) THEN locationUri ELSE item.locationUri,
           !.hiddenGem = gem]

\* returnItem of the item callback; gem is the address of hiddenGemObj, 0 without a gem
annotatedItem(item, gem, srcs) ==
    LET activityUri == Or(item.googleMapsLink, findMatchingUri(item.activity, srcs))
        locationUri == findNeighborhoodUri(item.location, srcs)
    IN [item EXCEPT
           !.googleMapsLink = Or(activityUri, Null),
           !.locationUri = IF Truthy(locationUri) THEN locationUri ELSE item.locationUri,
           !.hiddenGem = gem]

ItemHasGem(item) == item.hiddenGem # 0

\* day.items.map(item => ...): every item becomes a new object, and so does its gem
MapItems(h, arr, srcs) ==
    LET elems == h[arr].elems
        items == [i \in 1..Len(elems) |-> h[elems[i]]]
        withGem == SelectSeq(items, ItemHasGem)
        h1 == h \o [k \in 1..Len(withGem) |-> annotatedGem(h[withGem[k].hiddenGem], srcs)]
        h2 == h1 \o [i \in 1..Len(elems) |->
                        annotatedItem(items[i],
                                      IF ItemHasGem(items[i])
                                      THEN Len(h) + Rank(items, i, ItemHasGem)
                                      ELSE 0,
                                      srcs)]
    IN [heap |-> Append(h2, ArrayObj([i \in 1..Len(elems) |-> Len(h1) + i])),
        addr |-> Len(h2) + 1]

RECURSIVE MapDays(_, _, _, _, _)
\* matchedItinerary.dailyItinerary.map(day => ({ ...day, items: ... })) from position i on
MapDays(h, arr, srcs, i, addrs) ==
    IF i > Len(h[arr].elems)
    THEN [heap |-> Append(h, ArrayObj(addrs)), addr |-> Len(h) + 1]
    ELSE LET day == h[h[arr].elems[i]]
         IN With(MapItems(h, day.items, srcs), LAMBDA r :
            With(Append(r.heap, [day EXCEPT !.items = r.addr]), LAMBDA h1 :
            MapDays(h1, arr, srcs, i + 1, Append(addrs, Len(h1)))))

\* the heap after the call and the address of the itinerary it returns
matchSourcesToItinerary(h, itin, srcs) ==
    With(DeepCopy(h, itin), LAMBDA copy :
    With(MapHotels(copy.heap, copy.heap[copy.addr].recommendedHotels, srcs), LAMBDA rh :
    With([rh.heap EXCEPT ![copy.addr].recommendedHotels = rh.addr], LAMBDA h1 :
    With(MapDays(h1, h1[copy.addr].dailyItinerary, srcs, 1, <<>>), LAMBDA rd :
    [heap |-> [rd.heap EXCEPT ![copy.addr].dailyItinerary = rd.addr],
     addr |-> copy.addr]))))

-----------------------------------------------------------------------------
(* URL Coordinate Extractor *)

\* what a try block does when decodeURIComponent throws
URIError == <<"URIError">>

\* a value that is neither a string nor null nor undefined
AnObject == <<"object">>

\* typeof url === 'string'
IsString(v) == v \notin {Null, Undefined, AnObject}

\* decodeURIComponent: an escape written by encodeURIComponent becomes its
\* character; any other "%" (a lone %, %E9, %zz) throws
RECURSIVE decodeURIComponent(_)
decodeURIComponent(s) ==
    IF s = <<>> THEN <<>>
    ELSE IF Head(s) = "%"
         THEN LET known == {c \in DOMAIN escapes :
                               /\ Len(escapes[c]) <= Len(s)
                               /\ SubSeq(s, 1, Len(escapes[c])) = escapes[c]}
              IN IF known = {} THEN URIError
                 ELSE LET c == CHOOSE x \in known : TRUE
                          rest == decodeURIComponent(SubSeq(s, Len(escapes[c]) + 1, Len(s)))
                      IN IF rest = URIError THEN URIError ELSE <<c>> \o rest
         ELSE LET rest == decodeURIComponent(Tail(s))
              IN IF rest = URIError THEN URIError ELSE <<Head(s)>> \o rest

\* the characters of the class [-\d.]
NumberChars == Digits \cup {"-", "."}

\* the length of the longest run of characters of class that starts at s[i]
RECURSIVE RunLength(_, _, _)
RunLength(s, i, class) ==
    IF i <= Len(s) /\ s[i] \in class THEN 1 + RunLength(s, i + 1, class) ELSE 0

\* the length of the longest run of characters outside stop that starts at s[i]
RECURSIVE RunLengthNot(_, _, _)
RunLengthNot(s, i, stop) ==
    IF i <= Len(s) /\ s[i] \notin stop THEN 1 + RunLengthNot(s, i + 1, stop) ELSE 0

\* the literal text occurs in s at position i
StartsAt(s, i, text) ==
    /\ i >= 1
    /\ i + Len(text) - 1 <= Len(s)
    /\ SubSeq(s, i, i + Len(text) - 1) = text

\* String.prototype.match without the g flag: the leftmost position that matches
Leftmost(positions) ==
    IF positions = {} THEN 0 ELSE CHOOSE i \in positions : \A j \in positions : i <= j

\* ([-\d.]+),([-\d.]+) at s[i]: both groups are greedy runs of the class
PairAt(s, i) ==
    LET n1 == RunLength(s, i, NumberChars)
        n2 == RunLength(s, i + n1 + 1, NumberChars)
    IN [found |-> n1 >= 1 /\ StartsAt(s, i + n1, <<",">>) /\ n2 >= 1,
        g1 |-> SubSeq(s, i, i + n1 - 1),
        g2 |-> SubSeq(s, i + n1 + 1, i + n1 + n2),
        end |-> i + n1 + n2 + 1]

NoMatch == [found |-> FALSE, g1 |-> <<>>, g2 |-> <<>>, end |-> 0]

\* url.match(/@([-\d.]+),([-\d.]+)(?:,(\d+))?/)
coordsMatch(url) ==
    LET at == Leftmost({i \in 1..Len(url) : url[i] = "@" /\ PairAt(url, i + 1).found})
    IN IF at = 0 THEN NoMatch ELSE PairAt(url, at + 1)

\* url.match(/[?&]q=([-\d.]+),([-\d.]+)(?:&|$)/)
qNumericMatch(url) ==
    LET at == Leftmost({i \in 1..Len(url) :
                  /\ url[i] \in {"?", "&"}
                  /\ StartsAt(url, i + 1, <<"q", "=">>)
                  /\ PairAt(url, i + 3).found
                  /\ LET end == PairAt(url, i + 3).end
                     IN end > Len(url) \/ url[end] = "&"})
    IN IF at = 0 THEN NoMatch ELSE PairAt(url, at + 3)

\* url.match(/[?&]ll=([-\d.]+),([-\d.]+)/)
llMatch(url) ==
    LET at == Leftmost({i \in 1..Len(url) :
                  /\ url[i] \in {"?", "&"}
                  /\ StartsAt(url, i + 1, <<"l", "l", "=">>)
                  /\ PairAt(url, i + 4).found})
    IN IF at = 0 THEN NoMatch ELSE PairAt(url, at + 4)

\* url.match(/center=([-\d.]+),([-\d.]+)/)
centerMatch(url) ==
    LET at == Leftmost({i \in 1..Len(url) :
                  /\ StartsAt(url, i, <<"c", "e", "n", "t", "e", "r", "=">>)
                  /\ PairAt(url, i + 7).found})
    IN IF at = 0 THEN NoMatch ELSE PairAt(url, at + 7)

\* ([^&]+) at s[i]
ValueAt(s, i) ==
    LET n == RunLengthNot(s, i, {"&"})
    IN [found |-> n >= 1, g1 |-> SubSeq(s, i, i + n - 1), g2 |-> <<>>, end |-> i + n]

\* url.match(/[?&]cid=([^&]+)/)
cidMatch(url) ==
    LET at == Leftmost({i \in 1..Len(url) :
                  /\ url[i] \in {"?", "&"}
                  /\ StartsAt(url, i + 1, <<"c", "i", "d", "=">>)
                  /\ ValueAt(url, i + 5).found})
    IN IF at = 0 THEN NoMatch ELSE ValueAt(url, at + 5)

\* url.match(/place_id=([^&]+)/)
placeIdMatch(url) ==
    LET at == Leftmost({i \in 1..Len(url) :
                  /\ StartsAt(url, i, <<"p", "l", "a", "c", "e", "_", "i", "d", "=">>)
                  /\ ValueAt(url, i + 9).found})
    IN IF at = 0 THEN NoMatch ELSE ValueAt(url, at + 9)

\* url.match(/[?&]query=([^&]+)/)
searchQueryMatch(url) ==
    LET at == Leftmost({i \in 1..Len(url) :
                  /\ url[i] \in {"?", "&"}
                  /\ StartsAt(url, i + 1, <<"q", "u", "e", "r", "y", "=">>)
                  /\ ValueAt(url, i + 7).found})
    IN IF at = 0 THEN NoMatch ELSE ValueAt(url, at + 7)

\* url.match(/\/place\/[^/@]+@([-\d.]+),([-\d.]+)/)
placePathMatch(url) ==
    LET PairStart(i) == i + 7 + RunLengthNot(url, i + 7, {"/", "@"}) + 1
        at == Leftmost({i \in 1..Len(url) :
                  /\ StartsAt(url, i, <<"/", "p", "l", "a", "c", "e", "/">>)
                  /\ RunLengthNot(url, i + 7, {"/", "@"}) >= 1
                  /\ StartsAt(url, PairStart(i) - 1, <<"@">>)
                  /\ PairAt(url, PairStart(i)).found})
    IN IF at = 0 THEN NoMatch ELSE PairAt(url, PairStart(at))

\* a JavaScript number read from decimal text: m / 10^e, or NaN
NaN == [nan |-> TRUE, m |-> 0, e |-> 0]

RECURSIVE Pow10(_)
Pow10(e) == IF e = 0 THEN 1 ELSE 10 * Pow10(e - 1)

DigitValue(c) ==
    CHOOSE d \in 0..9 : <<"0", "1", "2", "3", "4", "5", "6", "7", "8", "9">>[d + 1] = c

RECURSIVE DigitsValue(_)
DigitsValue(ds) ==
    IF ds = <<>> THEN 0
    ELSE 10 * DigitsValue(SubSeq(ds, 1, Len(ds) - 1)) + DigitValue(ds[Len(ds)])

\* parseFloat on text of the class [-\d.]: an optional sign, digits, an optional
\* point and digits; what follows is ignored; NaN without a digit
parseFloat(text) ==
    LET neg == text # <<>> /\ text[1] = "-"
        body == IF neg THEN Tail(text) ELSE text
        n == RunLength(body, 1, Digits)
        f == IF StartsAt(body, n + 1, <<".">>) THEN RunLength(body, n + 2, Digits) ELSE 0
        digits == SubSeq(body, 1, n) \o SubSeq(body, n + 2, n + 1 + f)
    IN IF n + f = 0 THEN NaN
       ELSE [nan |-> FALSE,
             m |-> (IF neg THEN -1 ELSE 1) * DigitsValue(digits),
             e |-> f]

isNaN(x) == x.nan

\* x >= bound and x <= bound for an integer bound
AtLeast(x, bound) == x.m >= bound * Pow10(x.e)
AtMost(x, bound) == x.m <= bound * Pow10(x.e)

\* the longitude is not checked
ValidLatOnly(lat, lng) ==
    ~isNaN(lat) /\ ~isNaN(lng) /\ AtLeast(lat, -90) /\ AtMost(lat, 90)

\* !isNaN(lat) && !isNaN(lng) && lat >= -90 && lat <= 90 && lng >= -180 && lng <= 180
ValidLatLng(lat, lng) ==
    /\ ~isNaN(lat) /\ ~isNaN(lng)
    /\ AtLeast(lat, -90) /\ AtMost(lat, 90)
    /\ AtLeast(lng, -180) /\ AtMost(lng, 180)

\* the three forms of CoordinateResult
NoResult ==
    [coordinates |-> Null, needsGeocoding |-> FALSE,
     geocodingQuery |-> Undefined, placeId |-> Undefined, cid |-> Undefined]

DirectResult(lat, lng) ==
    [coordinates |-> <<lat, lng>>, needsGeocoding |-> FALSE,
     geocodingQuery |-> Undefined, placeId |-> Undefined, cid |-> Undefined]

GeocodingResult(query, placeId, cid) ==
    [coordinates |-> Null, needsGeocoding |-> TRUE,
     geocodingQuery |-> query, placeId |-> placeId, cid |-> cid]

\* latitude and longitude taken from the wrong groups
PairResultSwapped(match) ==
    LET lat == parseFloat(match.g2)
        lng == parseFloat(match.g1)
    IN IF match.found /\ ValidLatLng(lat, lng) THEN DirectResult(lat, lng) ELSE NoResult

\* a format with a coordinate pair: the result when the pair is valid
PairResult(match) ==
    LET lat == parseFloat(match.g1)
        lng == parseFloat(match.g2)
    IN IF match.found /\ ValidLatLng(lat, lng) THEN DirectResult(lat, lng) ELSE NoResult

CidPrefix == <<"c", "i", "d", ":">>

\* formats 5 to 8 without the query= format
identifierFormatsNoQuery(url) ==
    IF cidMatch(url).found
    THEN LET cid == decodeURIComponent(cidMatch(url).g1)
         IN IF cid = URIError THEN NoResult
            ELSE GeocodingResult(CidPrefix \o cid, Undefined, cid)
    ELSE IF placeIdMatch(url).found
    THEN LET placeId == decodeURIComponent(placeIdMatch(url).g1)
         IN IF placeId = URIError THEN NoResult
            ELSE GeocodingResult(placeId, placeId, Undefined)
    ELSE PairResult(placePathMatch(url))

\* formats 5 to 8, after formats 1 to 4 gave nothing; a throw of
\* decodeURIComponent is caught and ends the function with no result
identifierFormats(url) ==
    IF cidMatch(url).found
    THEN LET cid == decodeURIComponent(cidMatch(url).g1)
         IN IF cid = URIError THEN NoResult
            ELSE GeocodingResult(CidPrefix \o cid, Undefined, cid)
    ELSE IF placeIdMatch(url).found
    THEN LET placeId == decodeURIComponent(placeIdMatch(url).g1)
         IN IF placeId = URIError THEN NoResult
            ELSE GeocodingResult(placeId, placeId, Undefined)
    ELSE IF searchQueryMatch(url).found
    THEN LET query == decodeURIComponent(searchQueryMatch(url).g1)
         IN IF query = URIError THEN NoResult
            ELSE GeocodingResult(query, Undefined, Undefined)
    ELSE PairResult(placePathMatch(url))

extractCoordinatesFromUrl(url) ==
    IF ~Truthy(url) \/ ~IsString(url) THEN NoResult
    ELSE IF PairResult(coordsMatch(url)) # NoResult THEN PairResult(coordsMatch(url))
    ELSE IF PairResult(qNumericMatch(url)) # NoResult THEN PairResult(qNumericMatch(url))
    ELSE IF PairResult(llMatch(url)) # NoResult THEN PairResult(llMatch(url))
    ELSE IF PairResult(centerMatch(url)) # NoResult THEN PairResult(centerMatch(url))
    ELSE identifierFormats(url)

-----------------------------------------------------------------------------
(* Inputs: place names, citations and itineraries *)

AAAAAA == <<"A", "A", "A", "A", "A", "A">>
Z9Z9Z9 == <<"Z", "9", "Z", "9", "Z", "9">>
RelaxedVibe == <<"R", "e", "l", "a", "x", "e", "d">>
MuseumText == <<"M", "u", "s", "e", "u", "m">>
ParkHyattTokyo == <<"P", "a", "r", "k", " ", "H", "y", "a", "t", "t", " ", "T", "o", "k", "y", "o">>
HotelGracery == <<"H", "o", "t", "e", "l", " ", "G", "r", "a", "c", "e", "r", "y">>
HotelGraceryShinjuku == <<"H", "o", "t", "e", "l", " ", "G", "r", "a", "c", "e", "r", "y", " ", "S", "h", "i", "n", "j", "u", "k", "u">>
IchiranShibuya == <<"I", "c", "h", "i", "r", "a", "n", " ", "S", "h", "i", "b", "u", "y", "a">>
IchiranRamenShibuya == <<"I", "c", "h", "i", "r", "a", "n", " ", "R", "a", "m", "e", "n", " ", "S", "h", "i", "b", "u", "y", "a">>
Ramen == <<"R", "a", "m", "e", "n">>
RamenStreet == <<"R", "a", "m", "e", "n", " ", "S", "t", "r", "e", "e", "t">>
LunchNearTheStation == <<"l", "u", "n", "c", "h", " ", "n", "e", "a", "r", " ", "t", "h", "e", " ", "s", "t", "a", "t", "i", "o", "n">>
ExploreTheOldTown == <<"e", "x", "p", "l", "o", "r", "e", " ", "t", "h", "e", " ", "o", "l", "d", " ", "t", "o", "w", "n">>
TokyoStation == <<"T", "o", "k", "y", "o", " ", "S", "t", "a", "t", "i", "o", "n">>
Shibuya == <<"S", "h", "i", "b", "u", "y", "a">>
Shinjuku == <<"S", "h", "i", "n", "j", "u", "k", "u">>
ShibuyaCafe == <<"S", "h", "i", "b", "u", "y", "a", " ", "C", "a", "f", "e">>
AsakusaTokyo == <<"A", "s", "a", "k", "u", "s", "a", ",", " ", "T", "o", "k", "y", "o">>
Sen == <<"S", "e", "n">>
Sens == <<"S", "e", "n", "s">>
Senso == <<"S", "e", "n", "s", "o">>
Sensoji == <<"S", "e", "n", "s", "o", "j", "i">>
ACozyNoodleShop == <<"a", " ", "c", "o", "z", "y", " ", "n", "o", "o", "d", "l", "e", " ", "s", "h", "o", "p">>

ParkHyattUri == <<"h", "t", "t", "p", "s", ":", "/", "/", "m", "a", "p", "s", ".", "g", "o", "o", "g", "l", "e", ".", "c", "o", "m", "/", "?", "c", "i", "d", "=", "1", "2", "3">>
IchiranUri == <<"h", "t", "t", "p", "s", ":", "/", "/", "g", ".", "c", "o", "/", "i", "c", "h", "i", "r", "a", "n">>
ShibuyaUri == <<"h", "t", "t", "p", "s", ":", "/", "/", "g", ".", "c", "o", "/", "s", "h", "i", "b", "u", "y", "a">>
GraceryUri == <<"h", "t", "t", "p", "s", ":", "/", "/", "g", ".", "c", "o", "/", "g", "r", "a", "c", "e", "r", "y">>
WebUri == <<"h", "t", "t", "p", "s", ":", "/", "/", "i", "c", "h", "i", "r", "a", "n", ".", "c", "o", "m">>
RamenStreetUri == <<"h", "t", "t", "p", "s", ":", "/", "/", "g", ".", "c", "o", "/", "s", "t", "r", "e", "e", "t">>
LunchUri == <<"h", "t", "t", "p", "s", ":", "/", "/", "g", ".", "c", "o", "/", "l", "u", "n", "c", "h">>
CafeUri == <<"h", "t", "t", "p", "s", ":", "/", "/", "g", ".", "c", "o", "/", "c", "a", "f", "e">>
OwnLink == <<"h", "t", "t", "p", "s", ":", "/", "/", "g", ".", "c", "o", "/", "o", "w", "n">>
OwnAreaLink == <<"h", "t", "t", "p", "s", ":", "/", "/", "g", ".", "c", "o", "/", "a", "r", "e", "a">>

Alphabet == {"a", "T", " ", "-"}

\* the strings over Alphabet of at most n characters
RECURSIVE StringsUpTo(_)
StringsUpTo(n) ==
    IF n = 0 THEN {<<>>}
    ELSE LET shorter == StringsUpTo(n - 1)
         IN shorter \cup {Append(s, c) : s \in shorter, c \in Alphabet}

\* every sequence of at most n elements of S
RECURSIVE SeqsUpTo(_, _)
SeqsUpTo(S, n) ==
    IF n = 0 THEN {<<>>}
    ELSE LET shorter == SeqsUpTo(S, n - 1)
         IN shorter \cup {Append(s, x) : s \in shorter, x \in S}

NamedStrings ==
    {ParkHyattTokyo, HotelGracery, IchiranShibuya, IchiranRamenShibuya, Ramen,
     LunchNearTheStation, ExploreTheOldTown, Shibuya, AsakusaTokyo,
     Sen, Sens, Senso, Sensoji, ACozyNoodleShop}

Strings == NamedStrings \cup StringsUpTo(MaxStrLen)

ShortStrings == NamedStrings \cup StringsUpTo(MaxStrLen - 1)

\* citations of the direct calls
Chunks ==
    {MapsChunk(IchiranRamenShibuya, IchiranUri),
     MapsChunk(RamenStreet, RamenStreetUri),
     WebChunk(IchiranShibuya, WebUri),
     MapsChunk(LunchNearTheStation, LunchUri),
     MapsChunk(Shibuya, ShibuyaUri),
     MapsChunk(ShibuyaCafe, CafeUri),
     MapsChunk(<<"a", "T">>, OwnLink),
     MapsChunk(<<"-">>, OwnAreaLink)}

\* map links: a prefix followed by at most MaxParts parts, each part a marker
\* of one of the recognised shapes with its value
LinkPrefix == <<"h", "t", "t", "p", "s", ":", "/", "/", "g", ".", "c", "o", "/", "m", "a", "p", "s">>

PairTexts ==
    {<<"4", "5", ".", "5", ",", "-", "7", "4", ".", "2", "5">>, <<"-", "9", "0", ",", "1", "8", "0">>, <<"9", "0", ".", "5", ",", "1", "0">>, <<"4", "5", ".", "5", ",", "-", "1", "8", "1">>, <<"-", ",", "5">>}

PairMarks ==
    {<<"@">>, <<"?", "q", "=">>, <<"&", "l", "l", "=">>, <<"c", "e", "n", "t", "e", "r", "=">>, <<"/", "p", "l", "a", "c", "e", "/", "N", "@">>}

IdentifierParts ==
    {<<"?", "c", "i", "d", "=", "1", "2", "3">>, <<"&", "c", "i", "d", "=", "%">>, <<"#", "c", "i", "d", "=", "1", "2", "3">>, <<"?", "p", "l", "a", "c", "e", "_", "i", "d", "=", "C", "h", "I", "J", "1">>, <<"&", "p", "l", "a", "c", "e", "_", "i", "d", "=", "E", "i", "%", "2", "0", "1">>, <<"?", "q", "u", "e", "r", "y", "=", "a", "%", "2", "0", "b">>, <<"&", "q", "u", "e", "r", "y", "=", "%", "E", "9">>}

LinkParts ==
    {mark \o pair : mark \in PairMarks, pair \in PairTexts}
        \cup {<<"@", "4", "5", ".", "5", ",", "-", "7", "4", ".", "2", "5", ",", "1", "5", "z">>, <<"&">>}
        \cup IdentifierParts

RECURSIVE Concat(_)
Concat(parts) == IF parts = <<>> THEN <<>> ELSE Head(parts) \o Concat(Tail(parts))

Links ==
    {LinkPrefix \o Concat(parts) : parts \in SeqsUpTo(LinkParts, MaxParts)}
        \cup {Null, Undefined, AnObject, <<>>}

\* citations of a generation call, received with an itinerary
ReceivedChunks ==
    << MapsChunk(ParkHyattTokyo, ParkHyattUri),
       MapsChunk(IchiranShibuya, IchiranUri),
       WebChunk(IchiranShibuya, WebUri),
       MapsChunk(Shibuya, ShibuyaUri),
       MapsChunk(HotelGraceryShinjuku, GraceryUri) >>

\* the list of n citations that starts at position s of ReceivedChunks
ReceivedSources(s, n) ==
    [i \in 1..n |-> ReceivedChunks[((s + i - 2) % Len(ReceivedChunks)) + 1]]

DigitChar(i) == <<"0", "1", "2", "3", "4", "5", "6", "7", "8", "9">>[(i % 10) + 1]

LinkValues == <<Null, OwnLink, <<>>, Undefined>>
AreaLinkValues == <<Undefined, OwnAreaLink>>
HotelNames == <<ParkHyattTokyo, HotelGracery>>
ActivityNames == <<IchiranShibuya, LunchNearTheStation>>
Locations == <<Shibuya, AsakusaTokyo>>

NumHotelConfigs == Len(HotelNames) * Len(LinkValues)
NumGemConfigs == Len(LinkValues) * Len(AreaLinkValues)
NumItemLinkConfigs == Len(LinkValues) * Len(AreaLinkValues)
NumItemConfigs == NumItemLinkConfigs * (NumGemConfigs + 1) * Len(ActivityNames)

\* hotel number i of the JSON text, k selects its name and link
HotelConfig(k, i) ==
    [name |-> HotelNames[(k % Len(HotelNames)) + 1],
     description |-> <<"h", DigitChar(i)>>,
     location |-> Shinjuku,
     googleMapsLink |-> LinkValues[((k \div Len(HotelNames)) % Len(LinkValues)) + 1]]

GemConfig(g) ==
    [name |-> IchiranShibuya,
     location |-> Shibuya,
     description |-> <<"g">>,
     googleMapsLink |-> LinkValues[(g % Len(LinkValues)) + 1],
     locationUri |-> AreaLinkValues[((g \div Len(LinkValues)) % Len(AreaLinkValues)) + 1]]

\* item number i of day d of the JSON text, k selects its links, its gem and its name
ItemConfig(k, d, i) ==
    [time |-> <<"t", DigitChar(d), DigitChar(i)>>,
     activity |-> ActivityNames[((k \div (NumItemLinkConfigs * (NumGemConfigs + 1)))
                                    % Len(ActivityNames)) + 1],
     location |-> Locations[((k \div 5) % Len(Locations)) + 1],
     description |-> <<"i", DigitChar(d), DigitChar(i)>>,
     googleMapsLink |-> LinkValues[(k % Len(LinkValues)) + 1],
     locationUri |-> AreaLinkValues[((k \div Len(LinkValues)) % Len(AreaLinkValues)) + 1],
     hiddenGem |-> LET g == (k \div NumItemLinkConfigs) % (NumGemConfigs + 1)
                   IN IF g = 0 THEN <<>> ELSE <<GemConfig(g - 1)>>]

\* the parsed JSON text of a generation call
ItineraryConfig(k, nHotels, nDays, nItems) ==
    [tripTitle |-> <<"T">>,
     vibeCheck |-> <<"V">>,
     packingList |-> << <<"p", "1">>, <<"p", "2">> >>,
     recommendedHotels |-> [i \in 1..nHotels |-> HotelConfig((k + i - 1) % NumHotelConfigs, i)],
     dailyItinerary |->
        [d \in 1..nDays |->
            [day |-> <<"D", DigitChar(d)>>,
             title |-> <<"d", DigitChar(d)>>,
             items |-> [i \in 1..nItems |->
                           ItemConfig((k + (d - 1) * nItems + i - 1) % NumItemConfigs, d, i)]]]]

-----------------------------------------------------------------------------
(* The program: a generation call delivers an itinerary and its citations, *)
(* matchSourcesToItinerary annotates it, the caller owns the result; the   *)
(* functions of the Source Matcher are also called on their own            *)

\* no plan, no member and no call yet; the card is not rendered yet
InitRest ==
    /\ plans = <<>>
    /\ members = <<>>
    /\ plansCreated = <<>>
    /\ creates = <<>>
    /\ card = [mounted |-> "no", props |-> 0]
    /\ imageUrl = <<>>
    /\ imageLoading = TRUE
    /\ lookups = <<>>
    /\ mapView = [mounted |-> FALSE, itinerary |-> 0, listening |-> "no", due |-> "nothing"]
    /\ viewIsLoaded = FALSE
    /\ error = Null
    /\ isGeocoding = FALSE
    /\ mapRef = FALSE
    /\ map = FALSE
    /\ geocodeCalls = <<>>

NoCall == [fn |-> "none", a |-> <<>>, b |-> <<>>, sources |-> <<>>]

Init ==
    /\ heap = <<>>
    /\ itinerary = 0
    /\ sources = <<>>
    /\ matchedItinerary = 0
    /\ pc = "idle"
    /\ call = NoCall
    /\ ret = Undefined
    /\ google = FALSE
    /\ script = "none"
    /\ apiKey = FALSE
    /\ loadPromise = 0
    /\ isLoaded = FALSE
    /\ promises = <<>>
    /\ tasks = <<>>
    /\ InitRest

\* const parsedItinerary = JSON.parse(cleanedJsonString), with result.sources
ReceiveItinerary ==
    /\ pc = "idle"
    /\ \E k \in 0..(NumItemConfigs - 1), nHotels \in 0..MaxHotels,
          nDays \in 0..MaxDays, nItems \in 0..MaxItems,
          s \in 1..Len(ReceivedChunks), n \in 0..MaxSources :
          /\ nDays = 0 => nItems = 0
          /\ n = 0 => s = 1
          /\ LET r == JSONparse(<<>>, ItineraryConfig(k, nHotels, nDays, nItems))
             IN /\ heap' = r.heap
                /\ itinerary' = r.addr
          /\ sources' = ReceivedSources(s, n)
    /\ pc' = "received"
    /\ UNCHANGED <<matchedItinerary, call, ret>>
    /\ UNCHANGED mapsVars
    /\ UNCHANGED restVars

\* const matchedItinerary = matchSourcesToItinerary(parsedItinerary, result.sources)
MatchSources ==
    /\ pc = "received"
    /\ LET r == matchSourcesToItinerary(heap, itinerary, sources)
       IN /\ heap' = r.heap
          /\ matchedItinerary' = r.addr
    /\ pc' = "returned"
    /\ UNCHANGED <<itinerary, sources, call, ret>>
    /\ UNCHANGED mapsVars
    /\ UNCHANGED restVars

\* the addresses of the objects and arrays of the itinerary at address a
ObjectsOf(h, a) ==
    LET hotels == Range(h[h[a].recommendedHotels].elems)
        days == Range(h[h[a].dailyItinerary].elems)
        itemArrays == {h[d].items : d \in days}
        items == UNION {Range(h[arr].elems) : arr \in itemArrays}
        gems == {h[i].hiddenGem : i \in items} \ {0}
    IN {a, h[a].packingList, h[a].recommendedHotels, h[a].dailyItinerary}
           \cup hotels \cup days \cup itemArrays \cup items \cup gems

Changed == <<"c", "h", "a", "n", "g", "e", "d">>

\* an assignment to the properties of one object, or array.length = 0
Overwritten(obj) ==
    IF obj.kind = "Array" THEN [obj EXCEPT !.elems = <<>>]
    ELSE IF obj.kind = "Itinerary" THEN [obj EXCEPT !.tripTitle = Changed]
    ELSE IF obj.kind = "DailyPlan" THEN [obj EXCEPT !.title = Changed]
    ELSE IF obj.kind = "Hotel"
         THEN [obj EXCEPT !.name = Changed, !.googleMapsLink = Changed]
    ELSE IF obj.kind = "ItineraryItem"
         THEN [obj EXCEPT !.activity = Changed, !.googleMapsLink = Changed,
                          !.locationUri = Changed]
    ELSE [obj EXCEPT !.name = Changed, !.googleMapsLink = Changed,
                     !.locationUri = Changed]

\* the caller changes a nested object of the itinerary it got back
MutateOutput ==
    /\ pc = "returned"
    /\ \E a \in ObjectsOf(heap, matchedItinerary) :
          heap' = [heap EXCEPT ![a] = Overwritten(heap[a])]
    /\ pc' = "mutated"
    /\ UNCHANGED <<itinerary, sources, matchedItinerary, call, ret>>
    /\ UNCHANGED mapsVars
    /\ UNCHANGED restVars

CallIsSimilarMatch ==
    /\ pc = "idle"
    /\ \E str1 \in Strings, str2 \in Strings :
          /\ call' = [fn |-> "isSimilarMatch", a |-> str1, b |-> str2, sources |-> <<>>]
          /\ ret' = isSimilarMatch(str1, str2)
    /\ pc' = "called"
    /\ UNCHANGED <<heap, itinerary, sources, matchedItinerary>>
    /\ UNCHANGED mapsVars
    /\ UNCHANGED restVars

CallFindMatchingUri ==
    /\ pc = "idle"
    /\ \E placeName \in ShortStrings, srcs \in SeqsUpTo(Chunks, MaxSources) :
          /\ call' = [fn |-> "findMatchingUri", a |-> placeName, b |-> <<>>, sources |-> srcs]
          /\ ret' = findMatchingUri(placeName, srcs)
    /\ pc' = "called"
    /\ UNCHANGED <<heap, itinerary, sources, matchedItinerary>>
    /\ UNCHANGED mapsVars
    /\ UNCHANGED restVars

CallFindNeighborhoodUri ==
    /\ pc = "idle"
    /\ \E location \in ShortStrings, srcs \in SeqsUpTo(Chunks, MaxSources) :
          /\ call' = [fn |-> "findNeighborhoodUri", a |-> location, b |-> <<>>, sources |-> srcs]
          /\ ret' = findNeighborhoodUri(location, srcs)
    /\ pc' = "called"
    /\ UNCHANGED <<heap, itinerary, sources, matchedItinerary>>
    /\ UNCHANGED mapsVars
    /\ UNCHANGED restVars

CallExtractCoordinatesFromUrl ==
    /\ pc = "idle"
    /\ \E url \in Links :
          /\ call' = [fn |-> "extractCoordinatesFromUrl", a |-> url, b |-> <<>>,
                      sources |-> <<>>]
          /\ ret' = extractCoordinatesFromUrl(url)
    /\ pc' = "called"
    /\ UNCHANGED <<heap, itinerary, sources, matchedItinerary>>
    /\ UNCHANGED mapsVars
    /\ UNCHANGED restVars

\* matchSourcesToItinerary(matchedItinerary, sources): the annotation of an
\* itinerary that matchSourcesToItinerary returned, with the same citations
MatchSourcesAgain ==
    /\ pc = "returned"
    /\ \E r \in {matchSourcesToItinerary(heap, matchedItinerary, sources)} :
          /\ heap' = r.heap
          /\ ret' = r.addr
    /\ call' = [fn |-> "matchSourcesToItinerary", a |-> <<>>, b |-> <<>>, sources |-> sources]
    /\ pc' = "rematched"
    /\ UNCHANGED <<itinerary, sources, matchedItinerary>>
    /\ UNCHANGED mapsVars
    /\ UNCHANGED restVars

\* the annotation of a generated itinerary
Next ==
    \/ ReceiveItinerary
    \/ MatchSources

Spec == Init /\ [][Next]_vars

\* the annotation applied twice
NextTwice ==
    \/ ReceiveItinerary
    \/ MatchSources
    \/ MatchSourcesAgain

SpecTwice == Init /\ [][NextTwice]_vars

\* the annotation, and the caller changing what it got back
NextCaller ==
    \/ ReceiveItinerary
    \/ MatchSources
    \/ MutateOutput

SpecCaller == Init /\ [][NextCaller]_vars

\* the functions of the Source Matcher, each called on its own
NextMatcher ==
    \/ CallIsSimilarMatch
    \/ CallFindMatchingUri
    \/ CallFindNeighborhoodUri

SpecMatcher == Init /\ [][NextMatcher]_vars

\* the annotation and the functions of the Source Matcher
NextAll ==
    \/ ReceiveItinerary
    \/ MatchSources
    \/ CallIsSimilarMatch
    \/ CallFindMatchingUri
    \/ CallFindNeighborhoodUri

SpecAll == Init /\ [][NextAll]_vars

\* the URL Coordinate Extractor, called on its own
NextExtractor == CallExtractCoordinatesFromUrl

SpecExtractor == Init /\ [][NextExtractor]_vars

-----------------------------------------------------------------------------
(* Maps loader (src/utils/loadGoogleMapsAPI.ts) and Geocoding Resolver     *)
(* (geocodeQuery, getCoordinatesFromUrl).  A promise is a record of the    *)
(* sequence promises, and its number is its identity.  The script element, *)
(* the availability of window.google.maps and the geocoder belong to the   *)
(* environment; timers and continuations belong to the program.            *)

\* a promise made by the existing-script or the new-script path: its
\* listeners are on the script element, and the existing-script path has
\* started its 100 ms interval and its 10 s timeout
PendingLoad(path) ==
    [state |-> "pending", path |-> path, listening |-> TRUE,
     interval |-> path = "existing", timeout |-> path = "existing", timer |-> FALSE]

\* Promise.resolve() and Promise.reject(error)
SettledLoad(state) ==
    [state |-> state, path |-> "immediate", listening |-> FALSE,
     interval |-> FALSE, timeout |-> FALSE, timer |-> FALSE]

\* resolve() or reject() of a promise: nothing happens once it is settled
Settle(promise, state) ==
    IF promise.state = "pending" THEN [promise EXCEPT !.state = state] ELSE promise

\* window.google && window.google.maps
checkIfLoaded == google

\* one call of loadGoogleMapsAPI: the promise it returns and the state it leaves
loadGoogleMapsAPI ==
    LET id == Len(promises) + 1
    IN IF checkIfLoaded
       THEN [returned |-> id, promises |-> Append(promises, SettledLoad("resolved")),
             loadPromise |-> loadPromise, isLoaded |-> TRUE, script |-> script]
       ELSE IF loadPromise # 0
       THEN [returned |-> loadPromise, promises |-> promises,
             loadPromise |-> loadPromise, isLoaded |-> isLoaded, script |-> script]
       ELSE IF script # "none"
       THEN [returned |-> id, promises |-> Append(promises, PendingLoad("existing")),
             loadPromise |-> id, isLoaded |-> isLoaded, script |-> script]
       ELSE IF ~apiKey
       THEN [returned |-> id, promises |-> Append(promises, SettledLoad("rejected")),
             loadPromise |-> loadPromise, isLoaded |-> isLoaded, script |-> script]
       ELSE [returned |-> id, promises |-> Append(promises, PendingLoad("new")),
             loadPromise |-> id, isLoaded |-> isLoaded, script |-> "loading"]

\* the load event of the script element runs the load listeners
ScriptLoad ==
    /\ script = "loading"
    /\ script' = "loaded"
    /\ promises' =
          [p \in DOMAIN promises |->
              LET q == promises[p]
              IN IF ~q.listening THEN q
                 ELSE IF q.path = "existing"
                 THEN Settle([q EXCEPT !.listening = FALSE, !.interval = FALSE], "resolved")
                 ELSE IF checkIfLoaded
                 THEN Settle([q EXCEPT !.listening = FALSE], "resolved")
                 ELSE [q EXCEPT !.listening = FALSE, !.timer = TRUE]]
    /\ isLoaded' = (isLoaded \/ \E p \in DOMAIN promises :
                        promises[p].listening
                            /\ (promises[p].path = "existing" \/ checkIfLoaded))
    /\ UNCHANGED <<google, apiKey, loadPromise, tasks>>
    /\ UNCHANGED <<heap, itinerary, sources, matchedItinerary, pc, call, ret>>
    /\ UNCHANGED restVars

\* the error listeners run, but the cached promise is kept
ScriptErrorKeepsPromise ==
    /\ script = "loading"
    /\ script' = "failed"
    /\ promises' =
          [p \in DOMAIN promises |->
              LET q == promises[p]
              IN IF ~q.listening THEN q
                 ELSE Settle([q EXCEPT !.listening = FALSE, !.interval = FALSE], "rejected")]
    /\ UNCHANGED <<google, apiKey, isLoaded, tasks, loadPromise>>
    /\ UNCHANGED <<heap, itinerary, sources, matchedItinerary, pc, call, ret>>
    /\ UNCHANGED restVars

\* the error event of the script element runs the error listeners
ScriptError ==
    /\ script = "loading"
    /\ script' = "failed"
    /\ promises' =
          [p \in DOMAIN promises |->
              LET q == promises[p]
              IN IF ~q.listening THEN q
                 ELSE Settle([q EXCEPT !.listening = FALSE, !.interval = FALSE], "rejected")]
    /\ loadPromise' = IF \E p \in DOMAIN promises : promises[p].listening
                      THEN 0 ELSE loadPromise
    /\ UNCHANGED <<google, apiKey, isLoaded, tasks>>
    /\ UNCHANGED <<heap, itinerary, sources, matchedItinerary, pc, call, ret>>
    /\ UNCHANGED restVars

\* the script runs and defines window.google.maps
GoogleAppears ==
    /\ ~google
    /\ script \in {"loading", "loaded"}
    /\ google' = TRUE
    /\ UNCHANGED <<script, apiKey, loadPromise, isLoaded, promises, tasks>>
    /\ UNCHANGED <<heap, itinerary, sources, matchedItinerary, pc, call, ret>>
    /\ UNCHANGED restVars

\* a tick of the 100 ms interval of promise p that finds the API
IntervalTick(p) ==
    /\ promises[p].interval
    /\ checkIfLoaded
    /\ promises' = [promises EXCEPT ![p] = Settle([@ EXCEPT !.interval = FALSE], "resolved")]
    /\ isLoaded' = TRUE
    /\ UNCHANGED <<google, script, apiKey, loadPromise, tasks>>
    /\ UNCHANGED <<heap, itinerary, sources, matchedItinerary, pc, call, ret>>
    /\ UNCHANGED restVars

\* the 10 s timeout of promise p
Timeout10s(p) ==
    /\ promises[p].timeout
    /\ IF ~checkIfLoaded
       THEN /\ loadPromise' = 0
            /\ promises' = [promises EXCEPT
                  ![p] = Settle([@ EXCEPT !.timeout = FALSE, !.interval = FALSE], "rejected")]
       ELSE /\ loadPromise' = loadPromise
            /\ promises' = [promises EXCEPT
                  ![p] = [@ EXCEPT !.timeout = FALSE, !.interval = FALSE]]
    /\ UNCHANGED <<google, script, apiKey, isLoaded, tasks>>
    /\ UNCHANGED <<heap, itinerary, sources, matchedItinerary, pc, call, ret>>
    /\ UNCHANGED restVars

\* the 500 ms timer that onload of promise p started
Timer500(p) ==
    /\ promises[p].timer
    /\ IF checkIfLoaded
       THEN /\ isLoaded' = TRUE
            /\ loadPromise' = loadPromise
            /\ promises' = [promises EXCEPT ![p] = Settle([@ EXCEPT !.timer = FALSE], "resolved")]
       ELSE /\ isLoaded' = isLoaded
            /\ loadPromise' = 0
            /\ promises' = [promises EXCEPT ![p] = Settle([@ EXCEPT !.timer = FALSE], "rejected")]
    /\ UNCHANGED <<google, script, apiKey, tasks>>
    /\ UNCHANGED <<heap, itinerary, sources, matchedItinerary, pc, call, ret>>
    /\ UNCHANGED restVars

\* what a call has returned so far: nothing yet, or a rejection; null and a
\* pair of numbers are the other two
Pending == <<"pending">>
Rejected == <<"rejected">>

\* the location of the first result of the geocoder
GeocodedLocation ==
    <<[nan |-> FALSE, m |-> 356, e |-> 1], [nan |-> FALSE, m |-> 1397, e |-> 1]>>

NoRequest == [kind |-> "none", value |-> <<>>]

ChIJ == <<"C", "h", "I", "J">>

\* the request that geocodeQuery hands to geocoder.geocode; query.replace
\* takes 'cid:' off the front of a query that starts with it
geocodeRequest(query, placeName) ==
    IF StartsAt(query, 1, CidPrefix)
    THEN [kind |-> "address",
          value |-> Or(placeName, SubSeq(query, Len(CidPrefix) + 1, Len(query)))]
    ELSE IF StartsAt(query, 1, ChIJ)
    THEN [kind |-> "placeId", value |-> query]
    ELSE [kind |-> "address", value |-> query]

\* the links and place names of the calls
MapsLinks ==
    {LinkPrefix,
     LinkPrefix \o <<"@", "4", "5", ".", "5", ",", "-", "7", "4", ".", "2", "5">>,
     LinkPrefix \o <<"?", "c", "i", "d", "=", "1", "2", "3">>,
     LinkPrefix \o <<"?", "p", "l", "a", "c", "e", "_", "i", "d", "=", "C", "h", "I", "J", "1">>,
     LinkPrefix \o <<"&", "p", "l", "a", "c", "e", "_", "i", "d", "=", "E", "i", "%", "2", "0", "1">>,
     LinkPrefix \o <<"?", "q", "u", "e", "r", "y", "=", "a", "%", "2", "0", "b">>}

PlaceNames == {Undefined, ParkHyattTokyo}

\* getCoordinatesFromUrl(url, placeName) up to its first await: the pair of
\* the link, null, or a call of geocodeQuery that awaits its dynamic import
CallGetCoordinatesFromUrl ==
    /\ Len(tasks) < MaxCalls
    /\ \E url \in MapsLinks, placeName \in PlaceNames :
          LET result == extractCoordinatesFromUrl(url)
              task == [url |-> url, placeName |-> placeName, query |-> Undefined,
                       pc |-> "done", awaiting |-> 0, request |-> NoRequest,
                       outcome |-> Null]
          IN tasks' = Append(tasks,
                 IF result.coordinates # Null
                 THEN [task EXCEPT !.outcome = result.coordinates]
                 ELSE IF result.needsGeocoding /\ Truthy(result.geocodingQuery)
                 THEN [task EXCEPT !.query = result.geocodingQuery, !.pc = "import",
                                   !.outcome = Pending]
                 ELSE task)
    /\ UNCHANGED <<google, script, apiKey, loadPromise, isLoaded, promises>>
    /\ UNCHANGED <<heap, itinerary, sources, matchedItinerary, pc, call, ret>>
    /\ UNCHANGED restVars

\* await import('./loadGoogleMapsAPI') settles: a rejection is caught and
\* gives null, otherwise geocodeQuery calls loadGoogleMapsAPI and awaits it
ImportSettles(i) ==
    /\ i \in DOMAIN tasks
    /\ tasks[i].pc = "import"
    /\ \E imported \in BOOLEAN :
          IF imported
          THEN LET r == loadGoogleMapsAPI
               IN /\ promises' = r.promises
                  /\ loadPromise' = r.loadPromise
                  /\ isLoaded' = r.isLoaded
                  /\ script' = r.script
                  /\ tasks' = [tasks EXCEPT ![i] = [@ EXCEPT !.pc = "load",
                                                            !.awaiting = r.returned]]
          ELSE /\ tasks' = [tasks EXCEPT ![i] = [@ EXCEPT !.pc = "done", !.outcome = Null]]
               /\ UNCHANGED <<promises, loadPromise, isLoaded, script>>
    /\ UNCHANGED <<google, apiKey>>
    /\ UNCHANGED <<heap, itinerary, sources, matchedItinerary, pc, call, ret>>
    /\ UNCHANGED restVars

\* geocodeQuery goes on after await loadGoogleMapsAPI(): a rejection is
\* caught and gives null; so do a missing API and a throw of new Geocoder();
\* a throw of geocoder.geocode inside the executor of the returned promise
\* rejects that promise, which no catch of geocodeQuery sees
LoadSettles(i) ==
    /\ i \in DOMAIN tasks
    /\ tasks[i].pc = "load"
    /\ promises[tasks[i].awaiting].state # "pending"
    /\ \E geocoder \in {"works", "constructor throws", "geocode throws"} :
          tasks' = [tasks EXCEPT ![i] =
              IF promises[tasks[i].awaiting].state = "rejected" \/ ~checkIfLoaded
                    \/ geocoder = "constructor throws"
              THEN [@ EXCEPT !.pc = "done", !.outcome = Null]
              ELSE IF geocoder = "geocode throws"
              THEN [@ EXCEPT !.pc = "done", !.outcome = Rejected]
              ELSE [@ EXCEPT !.pc = "geocode",
                             !.request = geocodeRequest(tasks[i].query, tasks[i].placeName)]]
    /\ UNCHANGED <<google, script, apiKey, loadPromise, isLoaded, promises>>
    /\ UNCHANGED <<heap, itinerary, sources, matchedItinerary, pc, call, ret>>
    /\ UNCHANGED restVars

\* the geocoder calls back: status 'OK' with a first result gives its
\* location, anything else null
GeocoderCallback(i) ==
    /\ i \in DOMAIN tasks
    /\ tasks[i].pc = "geocode"
    /\ \E reply \in {"OK", "OK without results", "ZERO_RESULTS"} :
          tasks' = [tasks EXCEPT ![i] =
              [@ EXCEPT !.pc = "done",
                        !.outcome = IF reply = "OK" THEN GeocodedLocation ELSE Null]]
    /\ UNCHANGED <<google, script, apiKey, loadPromise, isLoaded, promises>>
    /\ UNCHANGED <<heap, itinerary, sources, matchedItinerary, pc, call, ret>>
    /\ UNCHANGED restVars

\* a page: with or without a Maps script tag of its own, which may have
\* loaded or failed already, and with or without a key
InitMaps ==
    /\ heap = <<>>
    /\ itinerary = 0
    /\ sources = <<>>
    /\ matchedItinerary = 0
    /\ pc = "idle"
    /\ call = NoCall
    /\ ret = Undefined
    /\ script \in {"none", "loading", "loaded", "failed"}
    /\ google \in IF script = "loaded" THEN BOOLEAN ELSE {FALSE}
    /\ apiKey \in BOOLEAN
    /\ loadPromise = 0
    /\ isLoaded = FALSE
    /\ promises = <<>>
    /\ tasks = <<>>
    /\ InitRest

\* the calls of getCoordinatesFromUrl of a page, the Maps script and the geocoder
NextMaps ==
    \/ CallGetCoordinatesFromUrl
    \/ \E i \in 1..MaxCalls : ImportSettles(i)
    \/ \E i \in 1..MaxCalls : LoadSettles(i)
    \/ \E i \in 1..MaxCalls : GeocoderCallback(i)
    \/ ScriptLoad
    \/ ScriptError
    \/ GoogleAppears
    \/ \E p \in DOMAIN promises : IntervalTick(p)
    \/ \E p \in DOMAIN promises : Timeout10s(p)
    \/ \E p \in DOMAIN promises : Timer500(p)

SpecMaps == InitMaps /\ [][NextMaps]_vars

\* the program takes its own steps: a settled await goes on, an armed timer
\* fires; nothing is assumed of the script element and of the geocoder
MapsFairness ==
    /\ \A i \in 1..MaxCalls : WF_vars(ImportSettles(i)) /\ WF_vars(LoadSettles(i))
    /\ \A p \in 1..MaxCalls :
          WF_vars(p \in DOMAIN promises /\ IntervalTick(p))
              /\ WF_vars(p \in DOMAIN promises /\ Timeout10s(p))
              /\ WF_vars(p \in DOMAIN promises /\ Timer500(p))

SpecMapsLive == InitMaps /\ [][NextMaps]_vars /\ MapsFairness

\* a caller (getPlacePhoto, getPlaceIdFromUrl, geocodeQuery) calls
\* loadGoogleMapsAPI(); ret is the number of the promise it got
CallLoadGoogleMapsAPI ==
    /\ Len(promises) < MaxLoads
    /\ LET r == loadGoogleMapsAPI
       IN /\ promises' = r.promises
          /\ loadPromise' = r.loadPromise
          /\ isLoaded' = r.isLoaded
          /\ script' = r.script
          /\ ret' = r.returned
    /\ call' = [fn |-> "loadGoogleMapsAPI", a |-> <<>>, b |-> <<>>, sources |-> <<>>]
    /\ UNCHANGED <<google, apiKey, tasks>>
    /\ UNCHANGED <<heap, itinerary, sources, matchedItinerary, pc>>
    /\ UNCHANGED restVars

\* the calls of loadGoogleMapsAPI of a page, the Maps script and the timers
NextLoader ==
    \/ CallLoadGoogleMapsAPI
    \/ ScriptLoad
    \/ ScriptError
    \/ GoogleAppears
    \/ \E p \in DOMAIN promises : IntervalTick(p)
    \/ \E p \in DOMAIN promises : Timeout10s(p)
    \/ \E p \in DOMAIN promises : Timer500(p)

SpecLoader == InitMaps /\ [][NextLoader]_vars

-----------------------------------------------------------------------------
(* Plans (src/services/firebase/plans.ts): createPlan.  A collection is a  *)
(* sequence of documents and the identifier of a document is its place in  *)
(* it.  Each await of createPlan ends in a step of its own, so that calls  *)
(* interleave where the code lets them.                                    *)

maxAttempts == 10

\* codes that generateInviteCode may return: six characters of A-Z0-9
InviteCodes == {AAAAAA, Z9Z9Z9}

\* the planData of a createPlan call
PlanData == [groupVibe |-> RelaxedVibe, mustDoList |-> MuseumText, vetoList |-> <<>>]

\* the document that createPlan writes
NewPlan(planData, inviteCode) ==
    [inviteCode |-> inviteCode, groupVibe |-> planData.groupVibe,
     mustDoList |-> planData.mustDoList, vetoList |-> planData.vetoList,
     memberIds |-> <<>>]

\* getPlanByInviteCode(inviteCode) finds a plan
PlanWithCode(inviteCode) == \E k \in DOMAIN plans : plans[k].inviteCode = inviteCode

\* createPlan(creatorId, planData) up to its first await
CallCreatePlan ==
    /\ Len(creates) < MaxCreates
    /\ \E code \in InviteCodes :
          creates' = Append(creates, [pc |-> "lookup", inviteCode |-> code, attempts |-> 0,
                                      planId |-> 0, plansCreated |-> <<>>])
    /\ UNCHANGED <<plans, members, plansCreated>>
    /\ UNCHANGED <<heap, itinerary, sources, matchedItinerary, pc, call, ret, mapsVars, cardVars, viewVars>>

\* await getPlanByInviteCode(inviteCode) returns: an unused code ends the
\* loop, a used one is replaced; after maxAttempts used codes createPlan
\* throws 'Failed to generate unique invite code'
PlanLookup(i) ==
    /\ i \in DOMAIN creates
    /\ creates[i].pc = "lookup"
    /\ IF ~PlanWithCode(creates[i].inviteCode)
       THEN creates' = [creates EXCEPT ![i].pc = "setDoc"]
       ELSE \E code \in InviteCodes :
               creates' = [creates EXCEPT
                   ![i].inviteCode = code,
                   ![i].attempts = creates[i].attempts + 1,
                   ![i].pc = IF creates[i].attempts + 1 < maxAttempts
                             THEN "lookup" ELSE "failed"]
    /\ UNCHANGED <<plans, members, plansCreated>>
    /\ UNCHANGED <<heap, itinerary, sources, matchedItinerary, pc, call, ret, mapsVars, cardVars, viewVars>>

\* await setDoc(planRef, ...) returns: the plan is stored
PlanStored(i) ==
    /\ i \in DOMAIN creates
    /\ creates[i].pc = "setDoc"
    /\ plans' = Append(plans, NewPlan(PlanData, creates[i].inviteCode))
    /\ creates' = [creates EXCEPT ![i].pc = "getDoc", ![i].planId = Len(plans) + 1]
    /\ UNCHANGED <<members, plansCreated>>
    /\ UNCHANGED <<heap, itinerary, sources, matchedItinerary, pc, call, ret, mapsVars, cardVars, viewVars>>

\* await getDoc(userRef) returns the user document
UserRead(i) ==
    /\ i \in DOMAIN creates
    /\ creates[i].pc = "getDoc"
    /\ creates' = [creates EXCEPT ![i].pc = "updateDoc", ![i].plansCreated = plansCreated]
    /\ UNCHANGED <<plans, members, plansCreated>>
    /\ UNCHANGED <<heap, itinerary, sources, matchedItinerary, pc, call, ret, mapsVars, cardVars, viewVars>>

\* await updateDoc(userRef, {plansCreated: [...plansCreated, planId]}) returns
\* and createPlan returns planId
UserUpdated(i) ==
    /\ i \in DOMAIN creates
    /\ creates[i].pc = "updateDoc"
    /\ plansCreated' = Append(creates[i].plansCreated, creates[i].planId)
    /\ creates' = [creates EXCEPT ![i].pc = "done"]
    /\ UNCHANGED <<plans, members>>
    /\ UNCHANGED <<heap, itinerary, sources, matchedItinerary, pc, call, ret, mapsVars, cardVars, viewVars>>

\* the calls of createPlan of the clients of one database
NextPlans ==
    \/ CallCreatePlan
    \/ \E i \in 1..MaxCreates : PlanLookup(i)
    \/ \E i \in 1..MaxCreates : PlanStored(i)
    \/ \E i \in 1..MaxCreates : UserRead(i)
    \/ \E i \in 1..MaxCreates : UserUpdated(i)

SpecPlans == Init /\ [][NextPlans]_vars

-----------------------------------------------------------------------------
(* The image of an itinerary card                                          *)
(*                                                                         *)
(* getLocationImage.ts and the image effect of ExpandableItineraryCard.    *)
(* What the Places service and the geocoder answer is the environment's:   *)
(* photos is the set of links for which getPlacePhoto finds a photo,       *)
(* places the set of links for which extractPlaceInfo finds a place.       *)

\* String.prototype.toLowerCase
LowerCaseString(s) == [i \in 1..Len(s) |-> toLowerCase(s[i])]

\* the test of findMatchingSource on one title
TitleMatches(normalizedActivity, title) ==
    LET normalizedTitle == Trim(LowerCaseString(title))
    IN \/ normalizedActivity = normalizedTitle
       \/ Includes(normalizedActivity, normalizedTitle)
       \/ Includes(normalizedTitle, normalizedActivity)

\* findMatchingSource(activityName, sources): the place in sources of the
\* source it returns, 0 for null
findMatchingSource(activityName, srcs) ==
    LET normalizedActivity == Trim(LowerCaseString(activityName))
        matching == {k \in DOMAIN srcs :
                        /\ Truthy(srcs[k].title)
                        /\ TitleMatches(normalizedActivity, srcs[k].title)}
    IN IF matching = {} THEN 0
       ELSE CHOOSE k \in matching : \A j \in matching : k <= j

\* matchingSource?.maps?.uri || matchingSource?.web?.uri || googleMapsLink
sourceUri(activityName, googleMapsLink, srcs) ==
    LET matchingSource == findMatchingSource(activityName, srcs)
    IN IF matchingSource = 0 THEN googleMapsLink
       ELSE Or(srcs[matchingSource].uri, googleMapsLink)

\* what stands for the photo URL the Places service gives for a link
PhotoUrl(uri) == <<"p", "h", "o", "t", "o", " ", "o", "f", " ">> \o uri

\* what stands for the Static Maps URL of the place of a link
StaticMapUrl(uri) == <<"s", "t", "a", "t", "i", "c", "m", "a", "p", " ", "o", "f", " ">> \o uri

\* getLocationImage(activityName, googleMapsLink, sources)
getLocationImage(activityName, googleMapsLink, srcs, photos, places) ==
    LET uri == sourceUri(activityName, googleMapsLink, srcs)
    IN IF Truthy(uri) /\ uri \in photos THEN PhotoUrl(uri)
       ELSE IF Truthy(googleMapsLink) /\ googleMapsLink \in photos
            THEN PhotoUrl(googleMapsLink)
       ELSE IF Truthy(uri) /\ uri \in places THEN StaticMapUrl(uri)
       ELSE IF Truthy(googleMapsLink) /\ googleMapsLink \in places
            THEN StaticMapUrl(googleMapsLink)
       ELSE Null

\* https://images.unsplash.com/photo-<photo>?w=800&h=600&fit=crop
Unsplash(photo) == <<"h", "t", "t", "p", "s", ":", "/", "/", "i", "m", "a", "g", "e", "s", ".", "u", "n", "s", "p", "l", "a", "s", "h", ".", "c", "o", "m", "/", "p", "h", "o", "t", "o", "-">> \o photo \o <<"?", "w", "=", "8", "0", "0", "&", "h", "=", "6", "0", "0", "&", "f", "i", "t", "=", "c", "r", "o", "p">>

\* the placeholder the card chooses from the words of the activity
fallbackImage(activity) ==
    LET activityLower == LowerCaseString(activity)
        has(word) == Includes(activityLower, word)
    IN IF has(<<"m", "u", "s", "e", "u", "m">>) \/ has(<<"g", "a", "l", "l", "e", "r", "y">>)
       THEN Unsplash(<<"1", "5", "1", "4", "3", "2", "0", "2", "9", "1", "8", "4", "0", "-", "2", "e", "0", "a", "9", "b", "f", "2", "a", "9", "a", "e">>)
       ELSE IF has(<<"b", "e", "a", "c", "h">>) \/ has(<<"o", "c", "e", "a", "n">>)
       THEN Unsplash(<<"1", "5", "0", "7", "5", "2", "5", "4", "2", "8", "0", "3", "4", "-", "b", "7", "2", "3", "c", "f", "9", "6", "1", "d", "3", "e">>)
       ELSE IF has(<<"r", "e", "s", "t", "a", "u", "r", "a", "n", "t">>) \/ has(<<"f", "o", "o", "d">>) \/ has(<<"d", "i", "n", "n", "e", "r">>) \/ has(<<"l", "u", "n", "c", "h">>)
       THEN Unsplash(<<"1", "5", "1", "7", "2", "4", "8", "1", "3", "5", "4", "6", "7", "-", "4", "c", "7", "e", "d", "c", "a", "d", "3", "4", "c", "4">>)
       ELSE IF has(<<"p", "a", "r", "k">>) \/ has(<<"g", "a", "r", "d", "e", "n">>)
       THEN Unsplash(<<"1", "4", "4", "1", "9", "7", "4", "2", "3", "1", "5", "3", "1", "-", "c", "6", "2", "2", "7", "d", "b", "7", "6", "b", "6", "e">>)
       ELSE IF has(<<"t", "e", "m", "p", "l", "e">>) \/ has(<<"c", "h", "u", "r", "c", "h">>) \/ has(<<"s", "h", "r", "i", "n", "e">>)
       THEN Unsplash(<<"1", "5", "1", "5", "5", "4", "2", "6", "2", "2", "1", "0", "6", "-", "7", "8", "b", "d", "a", "8", "b", "a", "0", "e", "5", "b">>)
       ELSE Unsplash(<<"1", "4", "8", "8", "6", "4", "6", "9", "5", "3", "0", "1", "4", "-", "8", "5", "c", "b", "4", "4", "e", "2", "5", "8", "2", "8">>)

\* the props a card is rendered with: item.activity, item.googleMapsLink, sources
CardProps ==
    << [activity |-> IchiranShibuya, googleMapsLink |-> OwnLink,
        sources |-> <<MapsChunk(IchiranShibuya, IchiranUri), WebChunk(IchiranShibuya, WebUri)>>],
       [activity |-> IchiranShibuya, googleMapsLink |-> OwnLink,
        sources |-> <<WebChunk(IchiranShibuya, WebUri), MapsChunk(IchiranShibuya, IchiranUri)>>],
       [activity |-> MuseumText, googleMapsLink |-> Null, sources |-> <<>>],
       [activity |-> LunchNearTheStation, googleMapsLink |-> OwnLink,
        sources |-> <<WebChunk(Shibuya, WebUri)>>] >>

\* the links the Places service and the geocoder are asked about
CardLinks == {OwnLink, IchiranUri, WebUri}

\* the card is rendered, for the first time or with other props, and its
\* effect runs: setImageLoading(true), then getLocationImage is called and
\* runs up to its first await
RenderCard(k) ==
    /\ k \in DOMAIN CardProps
    /\ card.mounted # "unmounted"
    /\ card.props # k
    /\ Len(lookups) < MaxLookups
    /\ card' = [mounted |-> "yes", props |-> k]
    /\ imageLoading' = TRUE
    /\ lookups' = Append(lookups,
           [pc |-> "pending", props |-> k,
            sourceUri |-> sourceUri(CardProps[k].activity, CardProps[k].googleMapsLink,
                                    CardProps[k].sources)])
    /\ UNCHANGED imageUrl
    /\ UNCHANGED <<heap, itinerary, sources, matchedItinerary, pc, call, ret, mapsVars, planVars, viewVars>>

\* the card is removed from the page; the effect has no cleanup
UnmountCard ==
    /\ card.mounted = "yes"
    /\ card' = [card EXCEPT !.mounted = "unmounted"]
    /\ UNCHANGED <<imageUrl, imageLoading, lookups>>
    /\ UNCHANGED <<heap, itinerary, sources, matchedItinerary, pc, call, ret, mapsVars, planVars, viewVars>>

\* await getLocationImage(...) of the i-th effect run returns and loadImage
\* runs to its end: the image found, or the placeholder for the activity the
\* run was started with; a state update of an unmounted card is dropped
LookupSettles(i) ==
    /\ i \in DOMAIN lookups
    /\ lookups[i].pc = "pending"
    /\ lookups' = [lookups EXCEPT ![i].pc = "done"]
    /\ \E photos \in SUBSET CardLinks, places \in SUBSET CardLinks :
          LET item == CardProps[lookups[i].props]
              locationImage == getLocationImage(item.activity, item.googleMapsLink,
                                                item.sources, photos, places)
          IN IF card.mounted = "unmounted"
             THEN UNCHANGED <<imageUrl, imageLoading>>
             ELSE /\ imageUrl' = IF Truthy(locationImage) THEN locationImage
                                 ELSE fallbackImage(item.activity)
                  /\ imageLoading' = FALSE
    /\ UNCHANGED card
    /\ UNCHANGED <<heap, itinerary, sources, matchedItinerary, pc, call, ret, mapsVars, planVars, viewVars>>

\* one card on a page
NextCard ==
    \/ \E k \in 1..Len(CardProps) : RenderCard(k)
    \/ UnmountCard
    \/ \E i \in 1..MaxLookups : LookupSettles(i)

SpecCard == Init /\ [][NextCard]_vars

-----------------------------------------------------------------------------
(* The map view                                                            *)
(*                                                                         *)
(* GoogleMapsWithMarkers.tsx.  A render and the effects that follow it are *)
(* one step; a state update schedules the next render (mapView.due), with  *)
(* the map effect when one of its dependencies changed.                    *)

\* url.match(/[?&]q=([-\d.]+),([-\d.]+)/)
qMatch(url) ==
    LET at == Leftmost({i \in 1..Len(url) :
                  /\ url[i] \in {"?", "&"}
                  /\ StartsAt(url, i + 1, <<"q", "=">>)
                  /\ PairAt(url, i + 3).found})
    IN IF at = 0 THEN NoMatch ELSE PairAt(url, at + 3)

\* a format of extractCoordinates gives a valid pair
ValidPair(match) ==
    match.found /\ ValidLatLng(parseFloat(match.g1), parseFloat(match.g2))

\* the extractCoordinates of the component: whether it returns coordinates
extractCoordinates(url) ==
    /\ Truthy(url) /\ IsString(url)
    /\ \/ ValidPair(coordsMatch(url))
       \/ ValidPair(qMatch(url))
       \/ ValidPair(llMatch(url))
       \/ ValidPair(centerMatch(url))

\* the places of an itinerary in the order of the component's loops:
\* hotels, then per item the activity and its hidden gem
RECURSIVE ItemPlaces(_)
ItemPlaces(items) ==
    IF items = <<>> THEN <<>>
    ELSE LET item == Head(items)
         IN <<[name |-> item.activity, link |-> item.googleMapsLink, type |-> "activity"]>>
            \o [g \in DOMAIN item.hiddenGem |->
                   [name |-> item.hiddenGem[g].name, link |-> item.hiddenGem[g].googleMapsLink,
                    type |-> "hidden-gem"]]
            \o ItemPlaces(Tail(items))

RECURSIVE DayPlaces(_)
DayPlaces(days) ==
    IF days = <<>> THEN <<>> ELSE ItemPlaces(Head(days).items) \o DayPlaces(Tail(days))

Places(itin) ==
    [h \in DOMAIN itin.recommendedHotels |->
        [name |-> itin.recommendedHotels[h].name,
         link |-> itin.recommendedHotels[h].googleMapsLink, type |-> "hotel"]]
    \o DayPlaces(itin.dailyItinerary)

\* the locations memo: the places with a link that gives coordinates
locations(itin) ==
    SelectSeq(Places(itin), LAMBDA place : Truthy(place.link) /\ extractCoordinates(place.link))

\* the places geocodeLocations calls geocodeLocation for
GeocodedPlaces(itin) ==
    SelectSeq(Places(itin), LAMBDA place : Truthy(place.link) /\ Truthy(place.name))

\* the itineraries the view is rendered with
ViewItineraries ==
    << [recommendedHotels |-> <<[name |-> ParkHyattTokyo, googleMapsLink |-> ParkHyattUri]>>,
        dailyItinerary |->
           <<[items |-> <<[activity |-> IchiranShibuya, googleMapsLink |-> OwnLink,
                           hiddenGem |-> <<>>]>>]>>],
       [recommendedHotels |-> <<[name |-> ParkHyattTokyo, googleMapsLink |-> LinkPrefix \o <<"@", "4", "5", ".", "5", ",", "-", "7", "4", ".", "2", "5">>]>>,
        dailyItinerary |->
           <<[items |-> <<[activity |-> IchiranShibuya, googleMapsLink |-> ParkHyattUri,
                           hiddenGem |-> <<[name |-> Ramen, googleMapsLink |-> Null]>>]>>]>>],
       [recommendedHotels |-> <<>>,
        dailyItinerary |->
           <<[items |-> <<[activity |-> MuseumText, googleMapsLink |-> Null,
                           hiddenGem |-> <<>>]>>]>>] >>

\* what the component returns has the div that carries ref={mapRef}
RendersMapDiv(itin, err, geocoding) ==
    err = Null /\ locations(itin) # <<>> /\ ~geocoding

\* initializeMap(locs) makes a map
MapMade(ref, locs) == ref /\ google /\ locs # <<>>

\* the component is mounted: the first render, then the effect that loads
\* the Maps script and the first run of the map effect, which finds
\* isLoaded false
MountView(k) ==
    /\ ~mapView.mounted
    /\ k \in DOMAIN ViewItineraries
    /\ mapRef' = RendersMapDiv(ViewItineraries[k], Null, FALSE)
    /\ IF ~apiKey
       THEN /\ error' = <<"G", "o", "o", "g", "l", "e", " ", "M", "a", "p", "s", " ", "A", "P", "I", " ", "k", "e", "y", " ", "n", "o", "t", " ", "f", "o", "u", "n", "d">>
            /\ mapView' = [mounted |-> TRUE, itinerary |-> k, listening |-> "no", due |-> "render"]
            /\ UNCHANGED <<viewIsLoaded, script>>
       ELSE IF google
       THEN /\ viewIsLoaded' = TRUE
            /\ mapView' = [mounted |-> TRUE, itinerary |-> k, listening |-> "no", due |-> "effect"]
            /\ UNCHANGED <<error, script>>
       ELSE IF script # "none"
       THEN /\ mapView' = [mounted |-> TRUE, itinerary |-> k, listening |-> "load", due |-> "nothing"]
            /\ UNCHANGED <<viewIsLoaded, error, script>>
       ELSE /\ script' = "loading"
            /\ mapView' = [mounted |-> TRUE, itinerary |-> k, listening |-> "own", due |-> "nothing"]
            /\ UNCHANGED <<viewIsLoaded, error>>
    /\ UNCHANGED <<isGeocoding, map, geocodeCalls>>
    /\ UNCHANGED <<google, apiKey, loadPromise, isLoaded, promises, tasks>>
    /\ UNCHANGED <<heap, itinerary, sources, matchedItinerary, pc, call, ret, planVars, cardVars>>

\* the scheduled render: mapRef.current follows what is rendered, then the
\* map effect runs if one of its dependencies changed
RenderView ==
    /\ mapView.mounted
    /\ mapView.due # "nothing"
    /\ LET itin == ViewItineraries[mapView.itinerary]
           ref == RendersMapDiv(itin, error, isGeocoding)
       IN /\ mapRef' = ref
          /\ IF mapView.due = "render" \/ ~viewIsLoaded \/ ~ref \/ ~google
             THEN /\ mapView' = [mapView EXCEPT !.due = "nothing"]
                  /\ UNCHANGED <<isGeocoding, map, geocodeCalls>>
             ELSE IF locations(itin) = <<>> /\ ~isGeocoding
             THEN /\ isGeocoding' = TRUE
                  /\ geocodeCalls' = geocodeCalls \o SubSeq(GeocodedPlaces(itin), 1, 1)
                  /\ mapView' = [mapView EXCEPT !.due = "effect"]
                  /\ UNCHANGED map
             ELSE /\ map' = (map \/ MapMade(ref, locations(itin)))
                  /\ mapView' = [mapView EXCEPT
                         !.due = IF ~map /\ MapMade(ref, locations(itin))
                                 THEN "render" ELSE "nothing"]
                  /\ UNCHANGED <<isGeocoding, geocodeCalls>>
    /\ UNCHANGED <<viewIsLoaded, error>>
    /\ UNCHANGED mapsVars
    /\ UNCHANGED <<heap, itinerary, sources, matchedItinerary, pc, call, ret, planVars, cardVars>>

\* the parent passes another itinerary
ChangeItinerary(k) ==
    /\ mapView.mounted
    /\ k \in DOMAIN ViewItineraries
    /\ k # mapView.itinerary
    /\ mapView' = [mapView EXCEPT !.itinerary = k, !.due = "effect"]
    /\ UNCHANGED <<viewIsLoaded, error, isGeocoding, mapRef, map, geocodeCalls>>
    /\ UNCHANGED mapsVars
    /\ UNCHANGED <<heap, itinerary, sources, matchedItinerary, pc, call, ret, planVars, cardVars>>

\* the load event of the script element: the listener of the component,
\* if it has one, calls setIsLoaded(true)
MapScriptLoad ==
    /\ script = "loading"
    /\ script' = "loaded"
    /\ IF mapView.listening # "no" /\ ~viewIsLoaded
       THEN /\ viewIsLoaded' = TRUE
            /\ mapView' = [mapView EXCEPT !.due = "effect"]
       ELSE UNCHANGED <<viewIsLoaded, mapView>>
    /\ UNCHANGED <<error, isGeocoding, mapRef, map, geocodeCalls>>
    /\ UNCHANGED <<google, apiKey, loadPromise, isLoaded, promises, tasks>>
    /\ UNCHANGED <<heap, itinerary, sources, matchedItinerary, pc, call, ret, planVars, cardVars>>

\* the error event of the script element: script.onerror of the script the
\* component appended calls setError
MapScriptError ==
    /\ script = "loading"
    /\ script' = "failed"
    /\ IF mapView.listening = "own"
       THEN /\ error' = <<"F", "a", "i", "l", "e", "d", " ", "t", "o", " ", "l", "o", "a", "d", " ", "G", "o", "o", "g", "l", "e", " ", "M", "a", "p", "s", " ", "s", "c", "r", "i", "p", "t">>
            /\ mapView' = [mapView EXCEPT
                   !.due = IF mapView.due = "effect" THEN "effect" ELSE "render"]
       ELSE UNCHANGED <<error, mapView>>
    /\ UNCHANGED <<viewIsLoaded, isGeocoding, mapRef, map, geocodeCalls>>
    /\ UNCHANGED <<google, apiKey, loadPromise, isLoaded, promises, tasks>>
    /\ UNCHANGED <<heap, itinerary, sources, matchedItinerary, pc, call, ret, planVars, cardVars>>

\* one map view on a page
NextView ==
    \/ \E k \in 1..Len(ViewItineraries) : MountView(k)
    \/ RenderView
    \/ \E k \in 1..Len(ViewItineraries) : ChangeItinerary(k)
    \/ MapScriptLoad
    \/ MapScriptError
    \/ GoogleAppears

SpecView == InitMaps /\ [][NextView]_vars

-----------------------------------------------------------------------------
(* Members and the aggregated preferences of a plan                        *)
(*                                                                         *)
(* members.ts, updatePlanWithMemberPreferences of plans.ts and the         *)
(* aggregate functions.  A call runs alone from its first await to its     *)
(* last; the identifier of a member is its place in members.               *)

\* Array.prototype.join(', ')
RECURSIVE JoinComma(_)
JoinComma(texts) ==
    IF texts = <<>> THEN <<>>
    ELSE IF Len(texts) = 1 THEN texts[1]
    ELSE texts[1] \o <<",", " ">> \o JoinComma(Tail(texts))

\* [...new Set(texts)]: the first occurrence of each text, in order
RECURSIVE Unique(_)
Unique(texts) ==
    IF texts = <<>> THEN <<>>
    ELSE LET front == Unique(SubSeq(texts, 1, Len(texts) - 1))
             last == texts[Len(texts)]
         IN IF \E j \in DOMAIN front : front[j] = last THEN front ELSE Append(front, last)

\* preferences.flatMap((p) => p[field] || []).filter(Boolean)
RECURSIVE FlatMap(_, _)
FlatMap(preferences, field) ==
    IF preferences = <<>> THEN <<>>
    ELSE SelectSeq(Head(preferences)[field], Truthy) \o FlatMap(Tail(preferences), field)

\* preferences.map((p) => p.budget).filter(Boolean)
RECURSIVE Budgets(_)
Budgets(preferences) ==
    IF preferences = <<>> THEN <<>>
    ELSE (IF Truthy(Head(preferences).budget) THEN <<Head(preferences).budget>> ELSE <<>>)
         \o Budgets(Tail(preferences))

\* one sentence added to the vibe
WithSentence(aggregated, label, text) ==
    IF Truthy(aggregated) THEN aggregated \o <<" ">> \o label \o text \o <<".">>
    ELSE label \o text \o <<".">>

aggregateGroupVibe(preferences, baseVibe) ==
    LET budgets == Budgets(preferences)
        interests == FlatMap(preferences, "interests")
        dietary == FlatMap(preferences, "dietary")
        a0 == Or(baseVibe, <<>>)
        a1 == IF Len(budgets) > 0
              THEN WithSentence(a0, <<"B", "u", "d", "g", "e", "t", " ", "c", "o", "n", "s", "i", "d", "e", "r", "a", "t", "i", "o", "n", "s", ":", " ">>, JoinComma(budgets)) ELSE a0
        a2 == IF Len(interests) > 0
              THEN WithSentence(a1, <<"G", "r", "o", "u", "p", " ", "i", "n", "t", "e", "r", "e", "s", "t", "s", " ", "i", "n", "c", "l", "u", "d", "e", ":", " ">>, JoinComma(Unique(interests))) ELSE a1
        a3 == IF Len(dietary) > 0
              THEN WithSentence(a2, <<"D", "i", "e", "t", "a", "r", "y", " ", "p", "r", "e", "f", "e", "r", "e", "n", "c", "e", "s", ":", " ">>, JoinComma(Unique(dietary))) ELSE a2
    IN Or(Trim(a3), Or(baseVibe, <<>>))

\* aggregateMustDo and aggregateVeto, which differ in the field only
aggregateList(preferences, field, base) ==
    LET memberItems == FlatMap(preferences, field)
    IN IF Len(memberItems) = 0 THEN base
       ELSE JoinComma(Unique(IF Truthy(base) THEN <<base>> \o memberItems ELSE memberItems))

aggregateMustDo(preferences, baseMustDo) == aggregateList(preferences, "mustDo", baseMustDo)

aggregateVeto(preferences, baseVeto) == aggregateList(preferences, "veto", baseVeto)

\* the plan after updatePlanWithMemberPreferences(planId, memberPreferences)
updatePlanWithMemberPreferences(plan, memberPreferences) ==
    [plan EXCEPT !.groupVibe = aggregateGroupVibe(memberPreferences, plan.groupVibe),
                 !.mustDoList = aggregateMustDo(memberPreferences, plan.mustDoList),
                 !.vetoList = aggregateVeto(memberPreferences, plan.vetoList)]

\* the preferences a member may give
Preferences ==
    {[budget |-> Undefined, interests |-> <<>>, dietary |-> <<>>, mustDo |-> <<>>, veto |-> <<>>],
     [budget |-> Undefined, interests |-> <<>>, dietary |-> <<>>,
      mustDo |-> <<MuseumText>>, veto |-> <<>>],
     [budget |-> <<"m", "i", "d">>, interests |-> <<<<"a", "r", "t">>>>, dietary |-> <<>>,
      mustDo |-> <<MuseumText>>, veto |-> <<>>],
     [budget |-> Undefined, interests |-> <<<<"a", "r", "t">>>>, dietary |-> <<<<"v", "e", "g", "a", "n">>>>,
      mustDo |-> <<<<"Z", "o", "o">>>>, veto |-> <<<<"C", "l", "u", "b", "s">>>>]}

\* getPlanMembers(planId): the preferences of the members of the plan
PreferencesOf(mems, planId) ==
    LET ofPlan == SelectSeq(mems, LAMBDA m : m.planId = planId)
    IN [j \in DOMAIN ofPlan |-> ofPlan[j].preferences]

\* the length of the three aggregated texts of a plan
TextLen(plan) == Len(plan.groupVibe) + Len(plan.mustDoList) + Len(plan.vetoList)

\* createMember(memberData): the member is stored, its identifier is added
\* to memberIds of the plan, then the plan is updated with the preferences
\* of the members getPlanMembers returns followed by memberData.preferences
CreateMember(planId, preferences) ==
    /\ planId \in DOMAIN plans
    /\ Len(members) < MaxMembers
    /\ TextLen(plans[planId]) <= MaxTextLen
    /\ LET memberId == Len(members) + 1
           stored == Append(members, [planId |-> planId, preferences |-> preferences])
           allPreferences == Append(PreferencesOf(stored, planId), preferences)
           withMember == [plans[planId] EXCEPT !.memberIds = Append(@, memberId)]
       IN /\ members' = stored
          /\ plans' = [plans EXCEPT
                 ![planId] = updatePlanWithMemberPreferences(withMember, allPreferences)]
    /\ UNCHANGED <<plansCreated, creates>>
    /\ UNCHANGED <<heap, itinerary, sources, matchedItinerary, pc, call, ret, mapsVars, cardVars, viewVars>>

\* updateMemberPreferences(memberId, preferences)
UpdateMemberPreferences(memberId, preferences) ==
    /\ memberId \in DOMAIN members
    /\ TextLen(plans[members[memberId].planId]) <= MaxTextLen
    /\ LET planId == members[memberId].planId
           stored == [members EXCEPT ![memberId].preferences = preferences]
       IN /\ members' = stored
          /\ plans' = [plans EXCEPT
                 ![planId] = updatePlanWithMemberPreferences(plans[planId],
                                                            PreferencesOf(stored, planId))]
    /\ UNCHANGED <<plansCreated, creates>>
    /\ UNCHANGED <<heap, itinerary, sources, matchedItinerary, pc, call, ret, mapsVars, cardVars, viewVars>>

\* a plan that createPlan has stored, with no member yet
InitMembers ==
    /\ heap = <<>>
    /\ itinerary = 0
    /\ sources = <<>>
    /\ matchedItinerary = 0
    /\ pc = "idle"
    /\ call = NoCall
    /\ ret = Undefined
    /\ google = FALSE
    /\ script = "none"
    /\ apiKey = FALSE
    /\ loadPromise = 0
    /\ isLoaded = FALSE
    /\ promises = <<>>
    /\ tasks = <<>>
    /\ plans = <<NewPlan(PlanData, AAAAAA)>>
    /\ members = <<>>
    /\ plansCreated = <<1>>
    /\ creates = <<[pc |-> "done", inviteCode |-> AAAAAA, attempts |-> 0,
                    planId |-> 1, plansCreated |-> <<>>]>>
    /\ card = [mounted |-> "no", props |-> 0]
    /\ imageUrl = <<>>
    /\ imageLoading = TRUE
    /\ lookups = <<>>
    /\ mapView = [mounted |-> FALSE, itinerary |-> 0, listening |-> "no", due |-> "nothing"]
    /\ viewIsLoaded = FALSE
    /\ error = Null
    /\ isGeocoding = FALSE
    /\ mapRef = FALSE
    /\ map = FALSE
    /\ geocodeCalls = <<>>

\* the members of one plan join and change their preferences
NextMembers ==
    \/ \E preferences \in Preferences : CreateMember(1, preferences)
    \/ \E memberId \in 1..MaxMembers, preferences \in Preferences :
          UpdateMemberPreferences(memberId, preferences)

SpecMembers == InitMembers /\ [][NextMembers]_vars

-----------------------------------------------------------------------------
(* Reading the state *)

\* the itinerary handed to matchSourcesToItinerary and the one it returned
Input == JSONstringify(heap, itinerary)
Output == JSONstringify(heap, matchedItinerary)

HotelPositions(v) == 1..Len(v.recommendedHotels)

\* <<d, i>> for item i of day d
ItemPositions(v) ==
    UNION {{<<d, i>> : i \in 1..Len(v.dailyItinerary[d].items)} :
               d \in 1..Len(v.dailyItinerary)}

ItemAt(v, p) == v.dailyItinerary[p[1]].items[p[2]]

GemPositions(v) == {p \in ItemPositions(v) : ItemAt(v, p).hiddenGem # <<>>}

GemAt(v, p) == ItemAt(v, p).hiddenGem[1]

\* neither null nor absent
NonNull(v) == v # Null /\ v # Undefined

\* a maps citation of srcs whose normalized title is the normalized name
EqualTitled(name, srcs) ==
    {j \in 1..Len(srcs) : /\ srcs[j].kind = "maps"
                          /\ Truthy(srcs[j].title)
                          /\ normalizeString(srcs[j].title) = normalizeString(name)}

\* the words of a normalized string: its maximal runs of characters other than the space
WordStarts(n) == {i \in 1..Len(n) : n[i] # " " /\ (i = 1 \/ n[i - 1] = " ")}

GenericPhrase(name) ==
    LET n == normalizeString(name)
    IN /\ \E marker \in Range(genericKeywords) : Includes(n, marker)
       /\ Cardinality(WordStarts(n)) <= 4

-----------------------------------------------------------------------------
(* C1 *)

\* C1: after matchSourcesToItinerary, every hotel and every activity that had no
\* link and whose name equals, after normalization, the title of a maps citation
\* has the URI of such a citation as its map-link; so the hotel "Park Hyatt
\* Tokyo" with the citation titled "Park Hyatt Tokyo" gets that citation's URI.
Claim_C1 ==
    pc = "returned" =>
        /\ \A i \in HotelPositions(Input) :
              LET hotel == Input.recommendedHotels[i]
              IN (~NonNull(hotel.googleMapsLink) /\ EqualTitled(hotel.name, sources) # {})
                     => \E j \in EqualTitled(hotel.name, sources) :
                            Output.recommendedHotels[i].googleMapsLink = sources[j].uri
        /\ \A p \in ItemPositions(Input) :
              LET item == ItemAt(Input, p)
              IN (~NonNull(item.googleMapsLink) /\ EqualTitled(item.activity, sources) # {})
                     => \E j \in EqualTitled(item.activity, sources) :
                            ItemAt(Output, p).googleMapsLink = sources[j].uri

-----------------------------------------------------------------------------
(* C2 *)

\* every link is there, and is a link: a string that is not empty
FullyPopulated(v) ==
    /\ \A i \in HotelPositions(v) : Truthy(v.recommendedHotels[i].googleMapsLink)
    /\ \A p \in ItemPositions(v) :
          /\ Truthy(ItemAt(v, p).googleMapsLink)
          /\ Truthy(ItemAt(v, p).locationUri)
    /\ \A p \in GemPositions(v) :
          /\ Truthy(GemAt(v, p).googleMapsLink)
          /\ Truthy(GemAt(v, p).locationUri)

\* C2: annotating an itinerary whose hotels, activities and hidden gems all have
\* a non-null map-link and whose activities and hidden gems all have a non-null
\* neighborhood-link returns an itinerary equal to the input, field for field.
Claim_C2 ==
    (pc = "returned" /\ FullyPopulated(Input)) => Output = Input

-----------------------------------------------------------------------------
(* C3 *)

\* C3: no step of matchSourcesToItinerary, and no later change of the returned
\* itinerary by its owner, changes a field of the input itinerary or the
\* citation list; the returned itinerary shares no object with the input.
Thm_C3 ==
    [][/\ itinerary # 0 =>
              /\ JSONstringify(heap', itinerary) = JSONstringify(heap, itinerary)
              /\ sources' = sources
       /\ pc' = "returned" =>
              ObjectsOf(heap', matchedItinerary') \cap ObjectsOf(heap', itinerary') = {}]_vars

\* the owner has overwritten a hotel of the output that the input gave a link
W_C3 ==
    /\ pc = "mutated"
    /\ \E i \in 1..Len(Input.recommendedHotels) :
          /\ Truthy(Input.recommendedHotels[i].googleMapsLink)
          /\ Input.recommendedHotels[i].name # Changed
          /\ i \in 1..Len(Output.recommendedHotels)
          /\ Output.recommendedHotels[i].name = Changed

-----------------------------------------------------------------------------
(* C4 *)

BlankGem(gem) == [gem EXCEPT !.googleMapsLink = Null, !.locationUri = Null]

BlankItem(item) ==
    [item EXCEPT !.googleMapsLink = Null, !.locationUri = Null,
                 !.hiddenGem = [g \in 1..Len(item.hiddenGem) |-> BlankGem(item.hiddenGem[g])]]

BlankDay(day) ==
    [day EXCEPT !.items = [i \in 1..Len(day.items) |-> BlankItem(day.items[i])]]

\* the itinerary without its map-links and neighborhood-links
Frame(v) ==
    [v EXCEPT
        !.recommendedHotels = [i \in 1..Len(v.recommendedHotels) |->
                                  [v.recommendedHotels[i] EXCEPT !.googleMapsLink = Null]],
        !.dailyItinerary = [d \in 1..Len(v.dailyItinerary) |-> BlankDay(v.dailyItinerary[d])]]

\* every map-link of the input that satisfies Kept is the map-link of the output
LinksKept(Kept(_)) ==
    /\ \A i \in HotelPositions(Input) :
          Kept(Input.recommendedHotels[i].googleMapsLink)
              => Output.recommendedHotels[i].googleMapsLink
                     = Input.recommendedHotels[i].googleMapsLink
    /\ \A p \in ItemPositions(Input) :
          Kept(ItemAt(Input, p).googleMapsLink)
              => ItemAt(Output, p).googleMapsLink = ItemAt(Input, p).googleMapsLink
    /\ \A p \in GemPositions(Input) :
          Kept(GemAt(Input, p).googleMapsLink)
              => GemAt(Output, p).googleMapsLink = GemAt(Input, p).googleMapsLink

-----------------------------------------------------------------------------
(* C5 *)

\* C5: a hidden gem is annotated by the rules of an activity, each link on its
\* own: its map-link is the one it had, else the Source Matcher's result for its
\* name, else null; its neighborhood-link is there, the one it had or the one
\* resolved from its location.
Claim_C5 ==
    pc = "returned" =>
        \A p \in GemPositions(Input) :
            LET gem == GemAt(Input, p)
            IN /\ GemAt(Output, p).googleMapsLink
                      = Or(Or(gem.googleMapsLink, findMatchingUri(gem.name, sources)), Null)
               /\ \/ GemAt(Output, p).locationUri = findNeighborhoodUri(gem.location, sources)
                  \/ /\ Truthy(gem.locationUri)
                     /\ GemAt(Output, p).locationUri = gem.locationUri

-----------------------------------------------------------------------------
(* C6 *)

\* a citation that findNeighborhoodUri may return for the area label
Qualifies(label, chunk) ==
    /\ chunk.kind = "maps"
    /\ Truthy(chunk.title)
    /\ LET t == normalizeString(chunk.title)
           l == normalizeString(label)
       IN /\ t = l \/ Includes(t, l) \/ Includes(l, t)
          /\ \A marker \in Range(businessMarkers) : ~Includes(t, marker)

\* url is the Google Maps search link whose query is the URL-encoded label
IsSearchLinkFor(url, label) ==
    /\ Len(url) >= Len(SearchUrlPrefix)
    /\ SubSeq(url, 1, Len(SearchUrlPrefix)) = SearchUrlPrefix
    /\ LET query == SubSeq(url, Len(SearchUrlPrefix) + 1, Len(url))
       IN /\ \A i \in 1..Len(query) :
                 query[i] \in WordChars \cup {"-", ".", "!", "~", "*", "'", "(", ")", "%"}
          /\ decodeURIComponent(query) = label

ShibuyaSearch == <<"h", "t", "t", "p", "s", ":", "/", "/", "w", "w", "w", ".", "g", "o", "o", "g", "l", "e", ".", "c", "o", "m", "/", "m", "a", "p", "s", "/", "s", "e", "a", "r", "c", "h", "/", "?", "a", "p", "i", "=", "1", "&", "q", "u", "e", "r", "y", "=", "S", "h", "i", "b", "u", "y", "a">>
AsakusaSearch == <<"h", "t", "t", "p", "s", ":", "/", "/", "w", "w", "w", ".", "g", "o", "o", "g", "l", "e", ".", "c", "o", "m", "/", "m", "a", "p", "s", "/", "s", "e", "a", "r", "c", "h", "/", "?", "a", "p", "i", "=", "1", "&", "q", "u", "e", "r", "y", "=", "A", "s", "a", "k", "u", "s", "a", "%", "2", "C", "%", "2", "0", "T", "o", "k", "y", "o">>

\* C6: findNeighborhoodUri returns a non-empty URL for every area label and
\* citation list, the Google Maps search link of the URL-encoded label when no
\* citation qualifies (https://www.google.com/maps/search/?api=1&query=Shibuya
\* for "Shibuya" and no citations); every activity of an annotated itinerary
\* has a neighborhood-link.
Thm_C6 ==
    /\ call.fn = "findNeighborhoodUri" =>
          /\ Truthy(ret)
          /\ (\A j \in 1..Len(call.sources) : ~Qualifies(call.a, call.sources[j]))
                 => IsSearchLinkFor(ret, call.a)
          /\ (call.a = Shibuya /\ call.sources = <<>>) => ret = ShibuyaSearch
    /\ pc = "returned" =>
          \A p \in ItemPositions(Output) :
              /\ Truthy(ItemAt(Output, p).locationUri)
              /\ (\A j \in 1..Len(sources) : ~Qualifies(ItemAt(Input, p).location, sources[j]))
                     => IsSearchLinkFor(ItemAt(Output, p).locationUri,
                                        ItemAt(Input, p).location)

\* an activity in "Asakusa, Tokyo" without a neighborhood-link, annotated when
\* no citation qualifies for the area, has the generated search link
W_C6 ==
    /\ pc = "returned"
    /\ \E p \in ItemPositions(Input) :
          /\ ItemAt(Input, p).location = AsakusaTokyo
          /\ ItemAt(Input, p).locationUri = Undefined
          /\ ItemAt(Output, p).locationUri = AsakusaSearch

-----------------------------------------------------------------------------
(* C7 *)

\* C7: for a place name whose normalized form contains a generic marker and has
\* four words or fewer, findMatchingUri returns nothing, whatever the citations.
Thm_C7 ==
    (call.fn = "findMatchingUri" /\ GenericPhrase(call.a)) => ret = Null

\* "lunch near the station" with a maps citation of that very title
W_C7 ==
    /\ call.fn = "findMatchingUri"
    /\ call.a = LunchNearTheStation
    /\ \E j \in 1..Len(call.sources) :
          call.sources[j] = MapsChunk(LunchNearTheStation, LunchUri)
    /\ ret = Null

-----------------------------------------------------------------------------
(* C8 *)

\* the containment rule of pass 1 on two strings
SimilarByRule(str1, str2) ==
    LET n1 == normalizeString(str1)
        n2 == normalizeString(str2)
        shorter == IF Len(n1) <= Len(n2) THEN n1 ELSE n2
        longer == IF Len(n1) <= Len(n2) THEN n2 ELSE n1
    IN \/ n1 = n2
       \/ /\ Includes(longer, shorter)
          /\ 100 * Len(shorter) >= 60 * Len(longer)

\* C8: isSimilarMatch accepts two strings exactly when their normalized forms
\* are equal, or one contains the other and the shorter has at least 60% of the
\* characters of the longer; it rejects "Ramen" against "Ichiran Ramen Shibuya",
\* which findMatchingUri matches only by word overlap.
Thm_C8 ==
    /\ call.fn = "isSimilarMatch" =>
          /\ ret = SimilarByRule(call.a, call.b)
          /\ (call.a = Ramen /\ call.b = IchiranRamenShibuya) => ret = FALSE
    /\ (call.fn = "findMatchingUri" /\ call.a = Ramen
            /\ call.sources = <<MapsChunk(IchiranRamenShibuya, IchiranUri)>>)
          => ret = IchiranUri

\* "Sen" in "Senso": contained, and exactly 60% of its characters
W_C8 ==
    /\ call.fn = "isSimilarMatch"
    /\ call.a = Sen
    /\ call.b = Senso
    /\ ret = TRUE

-----------------------------------------------------------------------------
(* C9 *)

\* the length of the word of the normalized string n that starts at position i
WordLen(n, i) ==
    CHOOSE k \in 1..Len(n) :
        /\ i + k - 1 <= Len(n)
        /\ \A j \in i..(i + k - 1) : n[j] # " "
        /\ i + k > Len(n) \/ n[i + k] = " "

\* the positions of the words of more than two characters
LongWords(n) == {i \in WordStarts(n) : WordLen(n, i) > 2}

\* how many of the long words of the name occur in the normalized title
Hits(name, title) ==
    LET n == normalizeString(name)
    IN Cardinality({i \in LongWords(n) :
                        Includes(normalizeString(title), SubSeq(n, i, i + WordLen(n, i) - 1))})

\* at least half of the long words of the name occur in the title
HalfOverlap(name, title) ==
    LET total == Cardinality(LongWords(normalizeString(name)))
    IN total > 0 /\ 2 * Hits(name, title) >= total

MinOf(S) == CHOOSE i \in S : \A j \in S : i <= j

\* C9: for a place name that is not generic, findMatchingUri returns the URI of
\* the first maps citation accepted by pass 1; if there is none, the URI of the
\* first citation among those with the greatest word overlap, when that overlap
\* is at least one half; and nothing otherwise.
Thm_C9 ==
    (call.fn = "findMatchingUri" /\ ~GenericPhrase(call.a)) =>
        LET srcs == call.sources
            candidates == {i \in 1..Len(srcs) : srcs[i].kind = "maps" /\ Truthy(srcs[i].title)}
            pass1 == {i \in candidates : isSimilarMatch(call.a, srcs[i].title)}
            pass2 == {i \in candidates : HalfOverlap(call.a, srcs[i].title)}
            best == {i \in pass2 : \A j \in pass2 :
                         Hits(call.a, srcs[j].title) <= Hits(call.a, srcs[i].title)}
        IN IF pass1 # {} THEN ret = srcs[MinOf(pass1)].uri
           ELSE IF pass2 # {} THEN ret = srcs[MinOf(best)].uri
           ELSE ret = Null

\* "Ramen" with two citations of the same overlap: the earlier one is returned
W_C9 ==
    /\ call.fn = "findMatchingUri"
    /\ call.a = Ramen
    /\ call.sources = <<MapsChunk(RamenStreet, RamenStreetUri),
                        MapsChunk(IchiranRamenShibuya, IchiranUri)>>
    /\ ret = RamenStreetUri

-----------------------------------------------------------------------------
(* C10 *)

\* the citations whose title matches the name with sufficient confidence
Confident(name, srcs) ==
    {i \in 1..Len(srcs) :
        /\ Truthy(srcs[i].title)
        /\ isSimilarMatch(name, srcs[i].title) \/ HalfOverlap(name, srcs[i].title)}

\* C10 as stated: for a place name that is not generic and whose only
\* sufficiently confident title matches are web citations, findMatchingUri
\* returns the URI of such a web citation.
Claim_C10 ==
    (/\ call.fn = "findMatchingUri"
     /\ ~GenericPhrase(call.a)
     /\ Confident(call.a, call.sources) # {}
     /\ \A i \in Confident(call.a, call.sources) : call.sources[i].kind = "web")
        => \E i \in Confident(call.a, call.sources) : ret = call.sources[i].uri

\* C10, amended: findMatchingUri takes only the maps citations as candidates: it
\* returns nothing or the URI of a maps citation of the list, and nothing for a
\* place name whose only sufficiently confident title matches are web citations.
Thm_C10 ==
    call.fn = "findMatchingUri" =>
        /\ \/ ret = Null
           \/ \E i \in 1..Len(call.sources) :
                  call.sources[i].kind = "maps" /\ ret = call.sources[i].uri
        /\ (/\ Confident(call.a, call.sources) # {}
            /\ \A i \in Confident(call.a, call.sources) : call.sources[i].kind = "web")
               => ret = Null

\* "Ichiran Shibuya" with the web citation of that title only
W_C10 ==
    /\ call.fn = "findMatchingUri"
    /\ call.a = IchiranShibuya
    /\ call.sources = <<WebChunk(IchiranShibuya, WebUri)>>
    /\ ret = Null

-----------------------------------------------------------------------------
(* C11 *)

\* the Source Matcher finds no citation for the name: the name is a generic
\* phrase, or no maps citation passes pass 1 or reaches half of the long words
NoCitationFor(name, srcs) ==
    \/ GenericPhrase(name)
    \/ \A i \in 1..Len(srcs) :
          (srcs[i].kind = "maps" /\ Truthy(srcs[i].title))
              => /\ ~isSimilarMatch(name, srcs[i].title)
                 /\ ~HalfOverlap(name, srcs[i].title)

\* the link that annotation leaves for a place: its own link, null when the
\* Source Matcher finds no citation, and the URI of a maps citation otherwise
AnnotatedLink(before, after, name, srcs) ==
    IF Truthy(before) THEN after = before
    ELSE IF NoCitationFor(name, srcs) THEN after = Null
    ELSE \E i \in 1..Len(srcs) : srcs[i].kind = "maps" /\ after = srcs[i].uri

\* C11: matchSourcesToItinerary returns an itinerary with all the hotels and
\* items of the input, in which a hotel or activity that had no link and for
\* which the Source Matcher finds no citation has the map-link null, and every
\* other hotel and item is annotated; "a cozy noodle shop" has no match when no
\* citation title holds two of its words.
Thm_C11 ==
    /\ pc = "returned" =>
          /\ matchedItinerary # 0
          /\ HotelPositions(Output) = HotelPositions(Input)
          /\ ItemPositions(Output) = ItemPositions(Input)
          /\ \A i \in HotelPositions(Input) :
                AnnotatedLink(Input.recommendedHotels[i].googleMapsLink,
                              Output.recommendedHotels[i].googleMapsLink,
                              Input.recommendedHotels[i].name, sources)
          /\ \A p \in ItemPositions(Input) :
                /\ AnnotatedLink(ItemAt(Input, p).googleMapsLink,
                                 ItemAt(Output, p).googleMapsLink,
                                 ItemAt(Input, p).activity, sources)
                /\ Truthy(ItemAt(Output, p).locationUri)
    /\ (call.fn = "findMatchingUri" /\ call.a = ACozyNoodleShop
            /\ NoCitationFor(ACozyNoodleShop, call.sources))
          => ret = Null

\* a hotel without a link and without a citation, next to an item that gets one
W_C11 ==
    /\ pc = "returned"
    /\ \E i \in HotelPositions(Input) :
          /\ ~Truthy(Input.recommendedHotels[i].googleMapsLink)
          /\ ~GenericPhrase(Input.recommendedHotels[i].name)
          /\ NoCitationFor(Input.recommendedHotels[i].name, sources)
          /\ Output.recommendedHotels[i].googleMapsLink = Null
    /\ \E p \in ItemPositions(Input) :
          /\ ~Truthy(ItemAt(Input, p).googleMapsLink)
          /\ ItemAt(Output, p).googleMapsLink = IchiranUri

-----------------------------------------------------------------------------
(* C12 *)

\* decimal text: an optional sign, digits, and optionally a point and digits
WellFormedNumber(text) ==
    LET body == IF text # <<>> /\ text[1] = "-" THEN Tail(text) ELSE text
        n == RunLength(body, 1, Digits)
    IN /\ n >= 1
       /\ \/ n = Len(body)
          \/ /\ body[n + 1] = "."
             /\ n + 2 <= Len(body)
             /\ \A j \in (n + 2)..Len(body) : body[j] \in Digits

\* the number that well-formed decimal text denotes, as m / 10^e
DecimalValue(text) ==
    LET points == {j \in 1..Len(text) : text[j] = "."}
        digits == SelectSeq(text, LAMBDA c : c \in Digits)
    IN [nan |-> FALSE,
        m |-> (IF text[1] = "-" THEN -1 ELSE 1) * DigitsValue(digits),
        e |-> IF points = {} THEN 0 ELSE Len(text) - (CHOOSE j \in points : TRUE)]

SameNumber(x, y) == ~x.nan /\ ~y.nan /\ x.m * Pow10(y.e) = y.m * Pow10(x.e)

\* value is between lo and hi, bounds included
Within(value, lo, hi) ==
    value.m >= lo * Pow10(value.e) /\ value.m <= hi * Pow10(value.e)

\* the two texts of the marker "@text,text" at url[i], <<>> if there is none
MarkerTexts(url, i) ==
    LET n1 == RunLength(url, i + 1, NumberChars)
        n2 == RunLength(url, i + n1 + 2, NumberChars)
    IN IF url[i] = "@" /\ n1 >= 1 /\ n2 >= 1 /\ StartsAt(url, i + n1 + 1, <<",">>)
       THEN <<SubSeq(url, i + 1, i + n1), SubSeq(url, i + n1 + 2, i + n1 + n2 + 1)>>
       ELSE <<>>

\* the positions of the @ markers of the link
Markers(url) == {i \in 1..Len(url) : MarkerTexts(url, i) # <<>>}

\* the marker at url[i] is well-formed, with a latitude and a longitude in range
GoodMarker(url, i) ==
    LET texts == MarkerTexts(url, i)
    IN /\ texts # <<>>
       /\ WellFormedNumber(texts[1]) /\ WellFormedNumber(texts[2])
       /\ Within(DecimalValue(texts[1]), -90, 90)
       /\ Within(DecimalValue(texts[2]), -180, 180)

\* the result is the direct coordinates of the marker at url[i]
IsPairOf(result, url, i) ==
    /\ result.needsGeocoding = FALSE
    /\ result.coordinates # Null
    /\ SameNumber(result.coordinates[1], DecimalValue(MarkerTexts(url, i)[1]))
    /\ SameNumber(result.coordinates[2], DecimalValue(MarkerTexts(url, i)[2]))

\* C12 as stated: for a link that holds a well-formed @lat,lng marker with lat
\* in [-90,90] and lng in [-180,180], extractCoordinatesFromUrl returns direct
\* coordinates equal to the pair of such a marker, with needsGeocoding false.
Claim_C12 ==
    (call.fn = "extractCoordinatesFromUrl" /\ IsString(call.a)
        /\ \E i \in Markers(call.a) : GoodMarker(call.a, i))
      => \E i \in Markers(call.a) : GoodMarker(call.a, i) /\ IsPairOf(ret, call.a, i)

\* C12, amended: for a link whose first @ marker is well-formed with lat in
\* [-90,90] and lng in [-180,180], extractCoordinatesFromUrl returns direct
\* coordinates equal to exactly the pair of that marker, with needsGeocoding
\* false, whatever else the link holds.
Thm_C12 ==
    (call.fn = "extractCoordinatesFromUrl" /\ IsString(call.a)
        /\ Markers(call.a) # {}
        /\ GoodMarker(call.a, Leftmost(Markers(call.a))))
      => IsPairOf(ret, call.a, Leftmost(Markers(call.a)))

\* a link with a zoom level after the pair and a cid parameter after that
W_C12 ==
    /\ call.fn = "extractCoordinatesFromUrl"
    /\ call.a = LinkPrefix \o <<"@", "4", "5", ".", "5", ",", "-", "7", "4", ".", "2", "5", ",", "1", "5", "z">> \o <<"?", "c", "i", "d", "=", "1", "2", "3">>
    /\ ret.coordinates = <<[nan |-> FALSE, m |-> 455, e |-> 1],
                           [nan |-> FALSE, m |-> -7425, e |-> 2]>>
    /\ ret.needsGeocoding = FALSE

(* C13 *)

\* the two texts of a pair "text,text" that starts at url[j], <<>> if none
PairTextsAt(url, j) ==
    LET n1 == RunLength(url, j, NumberChars)
        n2 == RunLength(url, j + n1 + 1, NumberChars)
    IN IF n1 >= 1 /\ n2 >= 1 /\ StartsAt(url, j + n1, <<",">>)
       THEN <<SubSeq(url, j, j + n1 - 1), SubSeq(url, j + n1 + 1, j + n1 + n2)>>
       ELSE <<>>

\* text stands in url right before url[j]
EndsBefore(url, j, text) ==
    j - Len(text) >= 1 /\ StartsAt(url, j - Len(text), text)

\* the lead-ins of the coordinate shapes; /place/name@ ends with the first
ShapeLeads ==
    {<<"@">>, <<"?", "q", "=">>, <<"&", "q", "=">>, <<"?", "l", "l", "=">>,
     <<"&", "l", "l", "=">>, <<"c", "e", "n", "t", "e", "r", "=">>}

\* a pair of well-formed numbers of which one is outside its range
OutOfRange(texts) ==
    /\ texts # <<>>
    /\ WellFormedNumber(texts[1]) /\ WellFormedNumber(texts[2])
    /\ \/ ~Within(DecimalValue(texts[1]), -90, 90)
       \/ ~Within(DecimalValue(texts[2]), -180, 180)

\* the positions where a coordinate pair of a recognised shape is out of range
OutOfRangePairs(url) ==
    {j \in 1..Len(url) :
        /\ \E lead \in ShapeLeads : EndsBefore(url, j, lead)
        /\ OutOfRange(PairTextsAt(url, j))}

\* C13: for every link in which a recognised coordinate pair (@, q=, ll=,
\* center= or /place/name@) has a latitude outside [-90,90] or a longitude
\* outside [-180,180], extractCoordinatesFromUrl returns "no result":
\* coordinates null and needsGeocoding false.
Claim_C13 ==
    (call.fn = "extractCoordinatesFromUrl" /\ IsString(call.a)
        /\ OutOfRangePairs(call.a) # {})
      => ret = NoResult

(* C14 *)

\* the lead-ins of the parameters that need geocoding
IdLeads ==
    {<<"?", "c", "i", "d", "=">>, <<"&", "c", "i", "d", "=">>,
     <<"p", "l", "a", "c", "e", "_", "i", "d", "=">>,
     <<"?", "q", "u", "e", "r", "y", "=">>, <<"&", "q", "u", "e", "r", "y", "=">>}

\* the positions where the value of a place_id=, cid= or query= parameter starts
IdParams(url) ==
    {j \in 1..Len(url) :
        /\ \E lead \in IdLeads : EndsBefore(url, j, lead)
        /\ RunLengthNot(url, j, {"&"}) >= 1}

\* the parameter value that starts at url[j] has only well-formed escapes
Decodable(url, j) == decodeURIComponent(ValueAt(url, j).g1) # URIError

\* the positions where a coordinate pair in the @, q=, ll= or center= shape starts
CoordinatePairs(url) ==
    {j \in 1..Len(url) :
        /\ \E lead \in ShapeLeads : EndsBefore(url, j, lead)
        /\ PairTextsAt(url, j) # <<>>}

\* C14 as stated: for every link that contains a place_id=, cid= or query=
\* parameter, extractCoordinatesFromUrl returns a geocoding-required result
\* (needsGeocoding true, coordinates null), never direct coordinates.
Claim_C14 ==
    (call.fn = "extractCoordinatesFromUrl" /\ IsString(call.a)
        /\ IdParams(call.a) # {})
      => ret.needsGeocoding = TRUE /\ ret.coordinates = Null

\* C14, amended: for every link that contains a place_id=, cid= or query=
\* parameter, all of them with well-formed percent-escapes, and no coordinate
\* pair in the @, q=, ll= or center= shape, extractCoordinatesFromUrl returns
\* a geocoding-required result: needsGeocoding true, coordinates null and a
\* non-empty geocodingQuery.
Thm_C14 ==
    (call.fn = "extractCoordinatesFromUrl" /\ IsString(call.a)
        /\ IdParams(call.a) # {}
        /\ \A j \in IdParams(call.a) : Decodable(call.a, j)
        /\ CoordinatePairs(call.a) = {})
      => /\ ret.needsGeocoding = TRUE
         /\ ret.coordinates = Null
         /\ Truthy(ret.geocodingQuery)

\* a link with only a search parameter, decoded to "a b"
W_C14 ==
    /\ call.fn = "extractCoordinatesFromUrl"
    /\ call.a = LinkPrefix \o <<"?", "q", "u", "e", "r", "y", "=", "a", "%", "2", "0", "b">>
    /\ ret.needsGeocoding = TRUE
    /\ ret.coordinates = Null
    /\ ret.geocodingQuery = <<"a", " ", "b">>

(* C15 *)

\* the result of the place-identifier, cid= and query= shape taken alone
PlaceIdShape(url) ==
    IF placeIdMatch(url).found /\ decodeURIComponent(placeIdMatch(url).g1) # URIError
    THEN GeocodingResult(decodeURIComponent(placeIdMatch(url).g1),
                         decodeURIComponent(placeIdMatch(url).g1), Undefined)
    ELSE NoResult

CidShape(url) ==
    IF cidMatch(url).found /\ decodeURIComponent(cidMatch(url).g1) # URIError
    THEN GeocodingResult(CidPrefix \o decodeURIComponent(cidMatch(url).g1),
                         Undefined, decodeURIComponent(cidMatch(url).g1))
    ELSE NoResult

QueryShape(url) ==
    IF searchQueryMatch(url).found /\ decodeURIComponent(searchQueryMatch(url).g1) # URIError
    THEN GeocodingResult(decodeURIComponent(searchQueryMatch(url).g1), Undefined, Undefined)
    ELSE NoResult

\* the results of the eight shapes in the stated priority order
ShapeResults(url) ==
    <<PlaceIdShape(url), PairResult(coordsMatch(url)), PairResult(qNumericMatch(url)),
      PairResult(llMatch(url)), PairResult(centerMatch(url)), CidShape(url),
      QueryShape(url), PairResult(placePathMatch(url))>>

\* the first result of the sequence that is not "no result"
FirstResult(results) ==
    LET hits == {k \in 1..Len(results) : results[k] # NoResult}
    IN IF hits = {} THEN NoResult ELSE results[Leftmost(hits)]

\* C15: when a link matches more than one recognised shape,
\* extractCoordinatesFromUrl returns the result of the highest-priority
\* matching shape in the order place-identifier, @ pair, q= pair, ll= pair,
\* center= pair, cid=, query=, /place/name@ pair; a link carrying both
\* place_id= and cid= yields a geocoding-required result with the place
\* identifier. Links with a malformed percent-escape are left aside.
Claim_C15 ==
    (call.fn = "extractCoordinatesFromUrl" /\ IsString(call.a)
        /\ \A j \in IdParams(call.a) : Decodable(call.a, j))
      => ret = FirstResult(ShapeResults(call.a))

(* C16 *)

\* shape (a): direct coordinates, both values numbers inside their ranges
IsDirect(result) ==
    /\ result.needsGeocoding = FALSE
    /\ result.coordinates # Null
    /\ ~result.coordinates[1].nan /\ ~result.coordinates[2].nan
    /\ Within(result.coordinates[1], -90, 90)
    /\ Within(result.coordinates[2], -180, 180)

\* shape (b): geocoding required, with a non-empty query text
IsGeocodingRequired(result) ==
    /\ result.coordinates = Null
    /\ result.needsGeocoding = TRUE
    /\ IsString(result.geocodingQuery)
    /\ result.geocodingQuery # <<>>

\* shape (c): nothing
IsNothing(result) ==
    /\ result.coordinates = Null
    /\ result.needsGeocoding = FALSE

\* C16: for every input (absent, empty, not a string, with malformed
\* percent-escapes) extractCoordinatesFromUrl returns a result, not an error,
\* of exactly one of three shapes: direct coordinates with needsGeocoding
\* false and both values in range; coordinates null with needsGeocoding true
\* and a non-empty geocodingQuery; or coordinates null with needsGeocoding
\* false.
Thm_C16 ==
    call.fn = "extractCoordinatesFromUrl"
      => /\ DOMAIN ret = DOMAIN NoResult
         /\ IsDirect(ret) \/ IsGeocodingRequired(ret) \/ IsNothing(ret)
         /\ ~(IsDirect(ret) /\ IsNothing(ret))
         /\ ~(IsGeocodingRequired(ret) /\ IsNothing(ret))

\* a search parameter with a malformed escape gives nothing
W_C16 ==
    /\ call.fn = "extractCoordinatesFromUrl"
    /\ call.a = LinkPrefix \o <<"&", "q", "u", "e", "r", "y", "=", "%", "E", "9">>
    /\ IsNothing(ret)

(* C17 *)

\* call i reached geocodeQuery with a query of the cid kind
IsCidCall(i) ==
    tasks[i].query # Undefined /\ StartsAt(tasks[i].query, 1, CidPrefix)

\* C17: for a geocoding-required result of the cid kind the resolver sends a
\* geocoding request only for the supplied place name, never for the
\* identifier; when no place name is supplied it sends no request and
\* returns an empty result, without throwing.
Claim_C17 ==
    \A i \in DOMAIN tasks :
        IsCidCall(i) =>
            /\ tasks[i].request # NoRequest
                  => /\ Truthy(tasks[i].placeName)
                     /\ tasks[i].request = [kind |-> "address", value |-> tasks[i].placeName]
            /\ ~Truthy(tasks[i].placeName)
                  => /\ tasks[i].request = NoRequest
                     /\ tasks[i].outcome \in {Pending, Null}

-----------------------------------------------------------------------------
(* C18 *)

\* the place identifier that the link of call i carries, Undefined if none
PlaceIdOf(i) == extractCoordinatesFromUrl(tasks[i].url).placeId

\* C18: for every link whose extraction result carries a place identifier,
\* getCoordinatesFromUrl issues a geocode-by-identifier request (placeId)
\* with the decoded identifier, whatever the identifier starts with, and
\* never geocodes it as address text.
Claim_C18 ==
    \A i \in DOMAIN tasks :
        (PlaceIdOf(i) # Undefined /\ tasks[i].request # NoRequest)
            => tasks[i].request = [kind |-> "placeId", value |-> PlaceIdOf(i)]

-----------------------------------------------------------------------------
(* C19 *)

\* C19: geocodeQuery never throws to its caller: whatever the loader, the
\* API object and the geocoder do, a call of geocodeQuery that has returned
\* has returned null or coordinates, and its promise is never rejected.
Claim_C19 ==
    \A i \in DOMAIN tasks :
        tasks[i].query # Undefined
            => /\ tasks[i].outcome # Rejected
               /\ tasks[i].pc = "done" => tasks[i].outcome \in {Null, GeocodedLocation}

-----------------------------------------------------------------------------
(* C20 *)

\* call i has been made / has returned
Called(i) == i \in DOMAIN tasks
Returned(i) == i \in DOMAIN tasks /\ tasks[i].pc = "done"

\* C20: every call of the resolver eventually completes, with coordinates or
\* with "no result", even when the geocoder never calls back and the Maps
\* script never fires load or error.
Claim_C20 == \A i \in 1..MaxCalls : Called(i) ~> Returned(i)

-----------------------------------------------------------------------------
(* C21 *)

\* the load promises that are pending
PendingLoads == {p \in DOMAIN promises : promises[p].state = "pending"}

\* C21: for every interleaving of loadGoogleMapsAPI calls, script load and
\* error events and timer callbacks, two distinct load promises are never
\* pending at the same time, and a call made while a load is pending and
\* the API is not there returns that pending promise.
Claim_C21 ==
    /\ Cardinality(PendingLoads) <= 1
    /\ (call.fn = "loadGoogleMapsAPI" /\ PendingLoads # {} /\ ~checkIfLoaded)
          => (ret \in PendingLoads \/ promises[ret].state # "pending")

-----------------------------------------------------------------------------
(* C22 *)

\* C22: the promise returned by loadGoogleMapsAPI resolves only when the
\* API is ready: whenever a load promise becomes resolved, window.google.maps
\* is available.
Claim_C22 ==
    [][\A p \in DOMAIN promises' :
          (promises'[p].state = "resolved"
              /\ (p \in DOMAIN promises => promises[p].state = "pending"))
            => google']_vars

-----------------------------------------------------------------------------
(* C23 *)

\* C23: whenever a load attempt fails (script error, script loaded without
\* the API, loading timeout), the cached promise is cleared: loadPromise is
\* never a rejected promise, so a call never returns a promise that was
\* rejected before the call, and with the API loaded every call returns a
\* resolved promise.
Thm_C23 ==
    [][/\ \A p \in DOMAIN promises :
             (promises[p].state = "pending" /\ promises'[p].state = "rejected")
                => loadPromise' = 0
       /\ loadPromise' # 0 => promises'[loadPromise'].state # "rejected"
       /\ CallLoadGoogleMapsAPI
             => /\ ret' \in DOMAIN promises => promises[ret'].state # "rejected"
                /\ (loadPromise = 0 /\ ~checkIfLoaded) => ret' \notin DOMAIN promises
                /\ checkIfLoaded => promises'[ret'].state = "resolved"]_vars

\* the first attempt failed and the next call started a second one
W_C23 ==
    /\ call.fn = "loadGoogleMapsAPI"
    /\ Len(promises) = 2
    /\ promises[1].state = "rejected" /\ promises[1].path # "immediate"
    /\ ret = 2
    /\ loadPromise = 2
    /\ promises[2].state = "pending"

-----------------------------------------------------------------------------
(* C24 *)

\* C24: after any interleaving of createPlan calls no two stored plans have
\* the same invite code, and a call that found no unused code within its
\* attempts has failed and stored no plan.
Claim_C24 ==
    /\ \A j \in DOMAIN plans, k \in DOMAIN plans :
          plans[j].inviteCode = plans[k].inviteCode => j = k
    /\ \A i \in DOMAIN creates :
          creates[i].pc = "failed"
              => creates[i].planId = 0 /\ creates[i].attempts = maxAttempts

-----------------------------------------------------------------------------
(* C25 *)

\* the i-th effect run was abandoned: the effect ran again for other props
\* after it, or the card was unmounted
Abandoned(i) == i < Len(lookups) \/ card.mounted = "unmounted"

\* C25: when the props of the card change or the card unmounts while a
\* getLocationImage lookup is in flight, the result of the abandoned lookup
\* does not update the card: it changes neither imageUrl nor imageLoading,
\* whatever order the lookups complete in.
Claim_C25 ==
    [][\A i \in 1..MaxLookups :
          (LookupSettles(i) /\ Abandoned(i))
             => (imageUrl' = imageUrl /\ imageLoading' = imageLoading)]_vars

-----------------------------------------------------------------------------
(* C27 *)

\* the sources of kind k whose title matches the activity name
MatchingOfKind(item, k) ==
    {j \in DOMAIN item.sources :
        /\ item.sources[j].kind = k
        /\ Truthy(item.sources[j].title)
        /\ TitleMatches(Trim(LowerCaseString(item.activity)), item.sources[j].title)}

\* C27: whenever the citation list holds both a maps citation and a web
\* citation whose titles match the activity name, the URI used for the photo
\* and static-map lookup is the URI of a matching maps citation, whatever
\* the order of the two in the list.
Claim_C27 ==
    \A i \in DOMAIN lookups :
       LET item == CardProps[lookups[i].props]
       IN (MatchingOfKind(item, "maps") # {} /\ MatchingOfKind(item, "web") # {})
             => \E j \in MatchingOfKind(item, "maps") :
                   lookups[i].sourceUri = item.sources[j].uri

-----------------------------------------------------------------------------
(* C26 *)

\* the itinerary has places with map links and none of them gives coordinates
NeedsGeocoding(itin) ==
    /\ \E j \in DOMAIN Places(itin) : Truthy(Places(itin)[j].link)
    /\ locations(itin) = <<>>

\* C26: when the itinerary has places with map links but none of them yields
\* direct coordinates, the component starts the batch geocoding once the Maps
\* script has loaded: when the script has loaded, the API is there, no error
\* is shown and no render is scheduled any more, isGeocoding has become true
\* and geocodeLocation has been called.
Claim_C26 ==
    (/\ mapView.mounted
     /\ NeedsGeocoding(ViewItineraries[mapView.itinerary])
     /\ viewIsLoaded /\ google /\ error = Null
     /\ mapView.due = "nothing")
        => (isGeocoding /\ geocodeCalls # <<>>)

-----------------------------------------------------------------------------
(* C28 *)

\* C28: after any sequence of member joins and preference updates the stored
\* groupVibe, mustDoList and vetoList of a plan equal the aggregation of the
\* creator's original values with the preferences of the current members,
\* each member counted once; so running the aggregation again with the same
\* preferences leaves them unchanged.
Claim_C28 ==
    \A planId \in DOMAIN plans :
       LET current == PreferencesOf(members, planId)
       IN /\ plans[planId].groupVibe = aggregateGroupVibe(current, PlanData.groupVibe)
          /\ plans[planId].mustDoList = aggregateMustDo(current, PlanData.mustDoList)
          /\ plans[planId].vetoList = aggregateVeto(current, PlanData.vetoList)

-----------------------------------------------------------------------------
(* C29 *)

\* C29: findMatchingUri and findNeighborhoodUri never return the URI of a
\* citation whose title normalizes to the empty string, and a place name or
\* area label that normalizes to the empty string never obtains the URI of
\* a citation.
Claim_C29 ==
    (pc = "called" /\ call.fn \in {"findMatchingUri", "findNeighborhoodUri"})
       => \A k \in DOMAIN call.sources :
             (normalizeString(call.sources[k].title) = <<>>
                 \/ normalizeString(call.a) = <<>>)
                => ret # call.sources[k].uri

-----------------------------------------------------------------------------
(* C30 *)

\* C30: annotating the annotated itinerary again with the same citations
\* changes nothing: the second result equals the first field for field,
\* hidden gems and links that stayed null included.
Thm_C30 ==
    pc = "rematched"
       => JSONstringify(heap, ret) = JSONstringify(heap, matchedItinerary)

\* the second annotation of an itinerary whose first annotation gave a hotel
\* its link and a hidden gem its area link, and left the links of the
\* activity and of the gem null
W_C30 ==
    /\ pc = "rematched"
    /\ LET before == JSONstringify(heap, itinerary)
           after == JSONstringify(heap, matchedItinerary)
       IN /\ Len(before.recommendedHotels) >= 1 /\ Len(before.dailyItinerary) >= 1
          /\ Len(before.dailyItinerary[1].items) >= 1
          /\ ~Truthy(before.recommendedHotels[1].googleMapsLink)
          /\ Truthy(after.recommendedHotels[1].googleMapsLink)
          /\ LET item == before.dailyItinerary[1].items[1]
                 matched == after.dailyItinerary[1].items[1]
             IN /\ matched.googleMapsLink = Null
                /\ HasGem(item)
                /\ ~Truthy(item.hiddenGem[1].locationUri)
                /\ Truthy(matched.hiddenGem[1].locationUri)
                /\ matched.hiddenGem[1].googleMapsLink = Null

====
